---- MODULE Spec2Model ----
(***************************************************************************)
(* Real-time coordination layer of the AWY server: the connection          *)
(* registry (websocket/index.ts), the presence handler and the call        *)
(* signaling engine (websocket/chat.ts).  Every async handler is split at  *)
(* its awaits: one action per synchronous stretch, the continuations that  *)
(* are waiting on an await are kept in the bag "tasks".                    *)
(***************************************************************************)
EXTENDS Integers, Sequences, FiniteSets, Bags, TLC

\* ---------------------------------------------------------------- bounds
MaxEnvelopes == 2
MaxTicks == 1
MaxPresenceConns == 2
MaxSweepTicks == 3
MaxFaults == 1

\* ------------------------------------------------------ program constants
RingTimeoutMs == 30000
\* the clock advances in steps of the ringing timeout
TickMs == RingTimeoutMs
MsPerSecond == 1000
SweepIntervalMs == 30000
StaleTimeoutMs == 60000

\* ------------------------------------------------------------- the world
Users == {"A", "B", "C"}
CallIds == {"c1", "c2"}
Namespaces == {"presence", "chat", "signaling"}
HangupReasons == {"hangup"}

\* the inbound envelopes that are tried: <<sending user, pairing id, call id>>
OfferInputs ==
  {<<"A", "p1", "c1">>, <<"A", "p2", "c2">>, <<"A", "p2", "c1">>, <<"C", "p2", "c2">>,
   <<"C", "p1", "c2">>, <<"B", "p3", "c1">>, <<"B", "p0", "c1">>}
\* <<sending user, call id>>
AnswerInputs == {<<"B", "c1">>, <<"C", "c2">>, <<"A", "c1">>, <<"C", "c1">>}
HangupInputs == {<<"A", "c1">>, <<"B", "c1">>, <<"C", "c2">>, <<"C", "c1">>}
\* the signaling connections whose socket closes
CloseInputs == {<<"signaling", "A", 1>>}

\* rows of the pairings table; "p0" is an id with no row
pairings ==
  [p \in {"p1", "p2", "p3"} |->
     CASE p = "p1" -> [student_id |-> "A", parent_id |-> "B", status |-> "active"]
       [] p = "p2" -> [student_id |-> "A", parent_id |-> "C", status |-> "active"]
       [] p = "p3" -> [student_id |-> "B", parent_id |-> "C", status |-> "paused"]]
PairingIds == DOMAIN pairings \cup {"p0"}
NoPairing == [student_id |-> "none", parent_id |-> "none", status |-> "none"]

\* rows of the profiles table
profiles ==
  [u \in Users |->
     IF u = "A"
     THEN [user_type |-> "student", visible_to_partner |-> TRUE, dnd_enabled |-> FALSE]
     ELSE [user_type |-> "parent", visible_to_partner |-> TRUE, dnd_enabled |-> FALSE]]

Unset == -1
NoRef == 0
NoRow == [status |-> "none", duration |-> Unset, reason |-> "none"]

VARIABLES
  sockets,         \* per connection id: "new", "setup" (registered, listeners not
                   \* yet attached), "open" (listeners attached) or "closed"
  connections,     \* ConnectionManager.connections: id -> connection
  userConnections, \* ConnectionManager.userConnections: userId -> set of ids
  callObjs,        \* the ActiveCall objects ever created (heap, by reference)
  activeCalls,     \* the activeCalls Map, in insertion order: <<[id, ref]>>
  dbCalls,         \* rows of the calls table, by id
  dbPresence,      \* rows of the presence table, by user id
  tasks,           \* bag of handler continuations suspended at an await
  timers,          \* bag of pending ringing-timeout callbacks
  now,             \* the clock, in ms
  used,            \* number of inbound signaling envelopes taken so far
  endedSent,       \* per call object: how often call_ended went to each party
  onlineSent,      \* per user: online partner_presence_update broadcasts that
                   \* its connects caused
  out,             \* envelopes emitted by the last step
  last,            \* the handler step taken last
  dbProfiles,      \* rows of the profiles table, by user id
  dbMessages,      \* rows of the messages table, in insertion order
  lastHeartbeat,   \* per connection object: its lastHeartbeat stamp, in ms
  wire,            \* socket.send calls of the last chat step, in call order
  faults           \* how many writes to the calls table and sends of the
                   \* signaling engine may still fail

vars == <<sockets, connections, userConnections, callObjs, activeCalls,
          dbCalls, dbPresence, tasks, timers, now, used, endedSent,
          onlineSent, out, last, dbProfiles, dbMessages, lastHeartbeat, wire,
          faults>>

\* what the signaling engine never touches
relayVars == <<dbProfiles, dbMessages, lastHeartbeat, wire>>

\* ------------------------------------------------------------ connections
\* connection ids are `${namespace}_${user.id}_${timestamp}_${random}`
ConnIds ==
  ({"presence"} \X Users \X (1 .. MaxPresenceConns))
    \cup ({"chat", "signaling"} \X Users \X {1})
ConnNs(id) == id[1]
ConnUser(id) == id[2]
NoConn == <<"none", "none", 0>>

AddConnection(conns, byUser, id) ==
  [c |-> (id :> [userId |-> ConnUser(id), namespace |-> ConnNs(id)]) @@ conns,
   u |-> LET cur == IF ConnUser(id) \in DOMAIN byUser THEN byUser[ConnUser(id)] ELSE {}
         IN  (ConnUser(id) :> (cur \cup {id})) @@ byUser]

RemoveConnectionKeepSet(conns, byUser, id) ==
  IF id \notin DOMAIN conns THEN [c |-> conns, u |-> byUser]
  ELSE LET uid == conns[id].userId
           c2 == [k \in DOMAIN conns \ {id} |-> conns[k]]
       IN  IF uid \notin DOMAIN byUser THEN [c |-> c2, u |-> byUser]
           ELSE [c |-> c2, u |-> [byUser EXCEPT ![uid] = @ \ {id}]]
RemoveConnection(conns, byUser, id) ==
  IF id \notin DOMAIN conns THEN [c |-> conns, u |-> byUser]
  ELSE LET uid == conns[id].userId
           c2 == [k \in DOMAIN conns \ {id} |-> conns[k]]
       IN  IF uid \notin DOMAIN byUser THEN [c |-> c2, u |-> byUser]
           ELSE LET rest == byUser[uid] \ {id}
                IN  [c |-> c2,
                     u |-> IF rest = {}
                           THEN [k \in DOMAIN byUser \ {uid} |-> byUser[k]]
                           ELSE [byUser EXCEPT ![uid] = rest]]

GetUserConnections(conns, byUser, uid) ==
  IF uid \in DOMAIN byUser THEN {id \in byUser[uid] : id \in DOMAIN conns} ELSE {}

\* ------------------------------------------------------------- envelopes
Bcast(uid, type, callId, ref, reason, duration) ==
  [kind |-> "bcast", user |-> uid, conn |-> NoConn, type |-> type,
   callId |-> callId, ref |-> ref, info |-> reason, duration |-> duration,
   subject |-> "none"]
Reply(conn, type, callId, info) ==
  [kind |-> "reply", user |-> ConnUser(conn), conn |-> conn, type |-> type,
   callId |-> callId, ref |-> NoRef, info |-> info, duration |-> Unset,
   subject |-> "none"]
PresenceBcast(uid, subject, status) ==
  [Bcast(uid, "partner_presence_update", "none", NoRef, status, Unset)
     EXCEPT !.subject = subject]
TypingBcast(uid, subject) ==
  [Bcast(uid, "typing_indicator", "none", NoRef, "false", Unset)
     EXCEPT !.subject = subject]

\* the step taken last: which handler branch ran, for whom, on which call
Step(act, uid, callId, ref) ==
  [act |-> act, user |-> uid, callId |-> callId, ref |-> ref, pairingId |-> "none",
   origin |-> "none", connectedAt |-> Unset, targets |-> {},
   status |-> "none", target |-> "none", msg |-> 0, conn |-> NoConn]

\* --------------------------------------------------------- the calls Map
MapGet(m, k) ==
  IF \E i \in 1 .. Len(m) : m[i].id = k
  THEN m[CHOOSE i \in 1 .. Len(m) : m[i].id = k].ref
  ELSE NoRef
MapSet(m, k, r) ==
  IF \E i \in 1 .. Len(m) : m[i].id = k
  THEN [i \in 1 .. Len(m) |-> IF m[i].id = k THEN [id |-> k, ref |-> r] ELSE m[i]]
  ELSE Append(m, [id |-> k, ref |-> r])
MapKeep(m, k) == m
MapDelete(m, k) == SelectSeq(m, LAMBDA e : e.id # k)

\* ------------------------------------------------------------ persistence
dbAnyPairing(id) ==
  IF id \in DOMAIN pairings THEN pairings[id] ELSE NoPairing
dbActivePairing(id) ==
  IF id \in DOMAIN pairings /\ pairings[id].status = "active"
  THEN pairings[id] ELSE NoPairing
DbInsertCall(db, id, status) ==
  IF db[id] = NoRow THEN [db EXCEPT ![id] = [NoRow EXCEPT !.status = status]] ELSE db
DbUpdateStatus(db, id, status) ==
  IF db[id] = NoRow THEN db ELSE [db EXCEPT ![id].status = status]
DbUpdateEnded(db, id, duration, reason) ==
  IF db[id] = NoRow THEN db
  ELSE [db EXCEPT ![id] = [status |-> "ended", duration |-> duration, reason |-> reason]]

\* a write to the calls table: the query resolves, with an error when the
\* write fails (its result is not looked at by the signaling engine)
DbOutcomes(f) == IF f > 0 THEN BOOLEAN ELSE {TRUE}
DbWrite(db2) ==
  \E ok \in DbOutcomes(faults) :
     /\ dbCalls' = IF ok THEN db2 ELSE dbCalls
     /\ faults' = IF ok THEN faults ELSE faults - 1

\* ------------------------------------------------------- pieces of handlers
IsMember(pairing, uid) == pairing.student_id = uid \/ pairing.parent_id = uid
OtherMember(pairing, uid) ==
  IF pairing.student_id = uid THEN pairing.parent_id ELSE pairing.student_id

ExistingCallAsCalleeOnly(objs, m, calleeId) ==
  \E i \in 1 .. Len(m) :
     /\ objs[m[i].ref].calleeId = calleeId
     /\ objs[m[i].ref].status # "ended"
ExistingCallPastInsert(objs, m, calleeId) ==
  \E i \in 1 .. Len(m) :
     /\ objs[m[i].ref].callerId = calleeId \/ objs[m[i].ref].calleeId = calleeId
     /\ objs[m[i].ref].status \notin {"ended", "initiated"}
ExistingCall(objs, m, calleeId) ==
  \E i \in 1 .. Len(m) :
     /\ objs[m[i].ref].callerId = calleeId \/ objs[m[i].ref].calleeId = calleeId
     /\ objs[m[i].ref].status # "ended"

IsParty(call, uid) == call.calleeId = uid \/ call.callerId = uid
IsCallee(call, uid) == call.calleeId = uid

DurationNoGuard(connectedAt, endedAt) ==
  (endedAt - connectedAt) \div MsPerSecond
Duration(connectedAt, endedAt) ==
  IF connectedAt # Unset THEN (endedAt - connectedAt) \div MsPerSecond ELSE 0

TimerCallPresent(objs, m, callId) == MapGet(m, callId) # NoRef
TimerStillRinging(objs, m, callId) ==
  MapGet(m, callId) # NoRef /\ objs[MapGet(m, callId)].status = "ringing"

UserCallsEndedToo(objs, m, uid) ==
  LET hit == SelectSeq(m, LAMBDA e :
               objs[e.ref].callerId = uid \/ objs[e.ref].calleeId = uid)
  IN  [i \in 1 .. Len(hit) |-> hit[i].id]
UserCalls(objs, m, uid) ==
  LET hit == SelectSeq(m, LAMBDA e :
               /\ objs[e.ref].callerId = uid \/ objs[e.ref].calleeId = uid
               /\ objs[e.ref].status # "ended")
  IN  [i \in 1 .. Len(hit) |-> hit[i].id]

FirstLive(ids, m) ==
  IF \E i \in 1 .. Len(ids) : MapGet(m, ids[i]) # NoRef
  THEN CHOOSE i \in 1 .. Len(ids) :
         /\ MapGet(m, ids[i]) # NoRef
         /\ \A j \in 1 .. (i - 1) : MapGet(m, ids[j]) = NoRef
  ELSE 0

\* endCall up to its await: mark ended, stamp endedAt, compute the duration
EndedObjs(objs, ref) ==
  [objs EXCEPT ![ref].status = "ended"]
EndTask(origin, uid, ref, reason, rest, targets) ==
  [kind |-> "end", origin |-> origin, user |-> uid, callId |-> callObjs[ref].id,
   ref |-> ref, reason |-> reason,
   connectedAt |-> callObjs[ref].connectedAt,
   duration |-> Duration(callObjs[ref].connectedAt, now),
   rest |-> rest, targets |-> targets]

\* ------------------------------------------------------------------ Init
InitSignalingConns == {<<"signaling", u, 1>> : u \in Users}

Init ==
  /\ sockets = [id \in ConnIds |-> IF id \in InitSignalingConns THEN "open" ELSE "new"]
  /\ connections = [id \in InitSignalingConns |->
                      [userId |-> ConnUser(id), namespace |-> ConnNs(id)]]
  /\ userConnections = [u \in Users |-> {<<"signaling", u, 1>>}]
  /\ callObjs = <<>>
  /\ activeCalls = <<>>
  /\ dbCalls = [c \in CallIds |-> NoRow]
  /\ dbPresence = [u \in Users |-> "offline"]
  /\ tasks = EmptyBag
  /\ timers = EmptyBag
  /\ now = 0
  /\ used = [env |-> 0]
  /\ endedSent = <<>>
  /\ onlineSent = [u \in Users |-> 0]
  /\ out = {}
  /\ last = Step("Init", "none", "none", NoRef)
  /\ dbProfiles = profiles
  /\ dbMessages = <<>>
  /\ lastHeartbeat = [id \in ConnIds |-> 0]
  /\ wire = <<>>
  /\ faults = 0

\* ------------------------------------------------------- handleCallOffer
\* a call_offer envelope: the pairing query, validation, the busy check, the
\* insertion in the map, and the insert query it then awaits.  The envelope
\* arrived while the socket was open; the await of the pairing query separates
\* the arrival from this step, so the socket may have closed in between.
OfferValidate(conn, pairingId, callId) ==
  /\ ConnNs(conn) = "signaling"
  /\ used.env < MaxEnvelopes
  /\ used' = [used EXCEPT !.env = @ + 1]
  /\ LET uid == ConnUser(conn)
         t == [kind |-> "offer", pc |-> "insert", conn |-> conn,
               pairingId |-> pairingId, callId |-> callId, ref |-> NoRef]
         pairing == dbActivePairing(t.pairingId)
         calleeId == OtherMember(pairing, uid)
         ref == Len(callObjs) + 1
         call == [id |-> t.callId, pairingId |-> t.pairingId, callerId |-> uid,
                  calleeId |-> calleeId, status |-> "initiated",
                  connectedAt |-> Unset]
         reject(act, info) ==
           /\ out' = {Reply(t.conn, "call_error", t.callId, info)}
           /\ last' = [Step(act, uid, t.callId, NoRef) EXCEPT !.pairingId = pairingId]
           /\ UNCHANGED <<callObjs, activeCalls, dbCalls, endedSent, tasks, faults>>
     IN  IF pairing = NoPairing THEN reject("OfferInvalidPairing", "Invalid pairing")
         ELSE IF ~IsMember(pairing, uid) THEN reject("OfferForbidden", "Forbidden")
         ELSE IF ExistingCall(callObjs, activeCalls, calleeId)
              THEN reject("OfferBusy", "User busy")
         ELSE /\ callObjs' = Append(callObjs, call)
              /\ endedSent' = Append(endedSent, <<>>)
              /\ activeCalls' = MapSet(activeCalls, t.callId, ref)
              /\ DbWrite(DbInsertCall(dbCalls, t.callId, "initiated"))
              /\ tasks' = tasks (+) SetToBag({[t EXCEPT !.ref = ref]})
              /\ out' = {}
              /\ last' = [Step("OfferCreate", uid, t.callId, ref)
                            EXCEPT !.pairingId = pairingId]
  /\ UNCHANGED <<sockets, connections, userConnections, dbPresence, timers, now,
                 onlineSent>>
  /\ UNCHANGED relayVars

\* the insert returned: forward to the callee, go to ringing, update query
OfferForward(t) ==
  /\ t.kind = "offer" /\ t.pc = "insert"
  /\ out' = {Bcast(callObjs[t.ref].calleeId, "call_offer_received", t.callId,
                   t.ref, "none", Unset)}
  /\ callObjs' = [callObjs EXCEPT ![t.ref].status = "ringing"]
  /\ DbWrite(DbUpdateStatus(dbCalls, t.callId, "ringing"))
  /\ tasks' = (tasks (-) SetToBag({t})) (+) SetToBag({[t EXCEPT !.pc = "update"]})
  /\ last' = Step("OfferForward", ConnUser(t.conn), t.callId, t.ref)
  /\ UNCHANGED <<sockets, connections, userConnections, activeCalls, dbPresence,
                 timers, now, used, endedSent, onlineSent>>
  /\ UNCHANGED relayVars

\* the update returned: confirm to the caller, schedule the ringing timeout.
\* A send that throws lands in the handler's catch, which logs: the statements
\* after the send are skipped.
SendOutcomes(f) == IF f > 0 THEN BOOLEAN ELSE {TRUE}

OfferConfirm(t) ==
  /\ t.kind = "offer" /\ t.pc = "update"
  /\ \E sent \in SendOutcomes(faults) :
       IF sent
       THEN /\ out' = {Reply(t.conn, "call_offer_sent", t.callId, "ringing")}
            /\ timers' = timers (+) SetToBag({[callId |-> t.callId,
                                               due |-> now + RingTimeoutMs,
                                               ref |-> t.ref]})
            /\ last' = Step("OfferConfirm", ConnUser(t.conn), t.callId, t.ref)
            /\ UNCHANGED faults
       ELSE /\ out' = {}
            /\ faults' = faults - 1
            /\ last' = Step("OfferConfirmThrown", ConnUser(t.conn), t.callId, t.ref)
            /\ UNCHANGED timers
  /\ tasks' = tasks (-) SetToBag({t})
  /\ UNCHANGED <<sockets, connections, userConnections, callObjs, activeCalls,
                 dbCalls, dbPresence, now, used, endedSent, onlineSent>>
  /\ UNCHANGED relayVars

\* ------------------------------------------------------ handleCallAnswer
\* a call_answer envelope: lookup, callee check, connected, update query
AnswerReceive(conn, callId) ==
  /\ sockets[conn] = "open" /\ ConnNs(conn) = "signaling"
  /\ used.env < MaxEnvelopes
  /\ used' = [used EXCEPT !.env = @ + 1]
  /\ LET uid == ConnUser(conn)
         ref == MapGet(activeCalls, callId)
         reject(act, info) ==
           /\ out' = {Reply(conn, "call_error", callId, info)}
           /\ last' = Step(act, uid, callId, ref)
           /\ UNCHANGED <<callObjs, dbCalls, tasks, faults>>
     IN  IF ref = NoRef THEN reject("AnswerNotFound", "Call not found")
         ELSE IF ~IsCallee(callObjs[ref], uid) THEN reject("AnswerForbidden", "Forbidden")
         ELSE /\ callObjs' = [callObjs EXCEPT ![ref].status = "connected",
                                              ![ref].connectedAt = now]
              /\ DbWrite(DbUpdateStatus(dbCalls, callObjs[ref].id, "connected"))
              /\ tasks' = tasks (+) SetToBag({[kind |-> "answer", pc |-> "update",
                                               conn |-> conn, ref |-> ref]})
              /\ out' = {}
              /\ last' = Step("AnswerAccept", uid, callId, ref)
  /\ UNCHANGED <<sockets, connections, userConnections, activeCalls, dbPresence,
                 timers, now, endedSent, onlineSent>>
  /\ UNCHANGED relayVars

\* the update returned: forward the answer to the caller, confirm to the callee
AnswerForward(t) ==
  /\ t.kind = "answer"
  /\ out' = {Bcast(callObjs[t.ref].callerId, "call_answer_received",
                   callObjs[t.ref].id, t.ref, "none", Unset),
             Reply(t.conn, "call_answered", callObjs[t.ref].id, "connected")}
  /\ tasks' = tasks (-) SetToBag({t})
  /\ last' = Step("AnswerForward", ConnUser(t.conn), callObjs[t.ref].id, t.ref)
  /\ UNCHANGED <<sockets, connections, userConnections, callObjs, activeCalls,
                 dbCalls, dbPresence, timers, now, used, endedSent, onlineSent, faults>>
  /\ UNCHANGED relayVars

\* ------------------------------------------------- handleCallHangup, endCall
\* a call_hangup envelope: endCall up to the await of its update query
HangupReceive(conn, callId, reason) ==
  /\ sockets[conn] = "open" /\ ConnNs(conn) = "signaling"
  /\ used.env < MaxEnvelopes
  /\ used' = [used EXCEPT !.env = @ + 1]
  /\ LET uid == ConnUser(conn)
         ref == MapGet(activeCalls, callId)
     IN  IF ref = NoRef
         THEN /\ last' = Step("HangupNoCall", uid, callId, NoRef)
              /\ UNCHANGED <<callObjs, dbCalls, tasks, faults>>
         ELSE /\ callObjs' = EndedObjs(callObjs, ref)
              /\ DbWrite(DbUpdateEnded(dbCalls, callObjs[ref].id,
                               Duration(callObjs[ref].connectedAt, now), reason))
              /\ tasks' = tasks (+) SetToBag({EndTask("hangup", uid, ref, reason, <<>>, {})})
              /\ last' = Step("HangupEnd", uid, callId, ref)
  /\ out' = {}
  /\ UNCHANGED <<sockets, connections, userConnections, activeCalls, dbPresence,
                 timers, now, endedSent, onlineSent>>
  /\ UNCHANGED relayVars

\* endCall after its await: notify both parties, delete from the map; in
\* endUserCalls the loop then goes on to the next call of the snapshot
EndNotify(t) ==
  /\ t.kind = "end"
  /\ LET call == callObjs[t.ref]
         m2 == MapDelete(activeCalls, t.callId)
         i == FirstLive(t.rest, m2)
         ref2 == MapGet(m2, t.rest[i])
     IN  /\ out' = {Bcast(call.callerId, "call_ended", call.id, t.ref, t.reason, t.duration),
                    Bcast(call.calleeId, "call_ended", call.id, t.ref, t.reason, t.duration)}
         /\ endedSent' = [endedSent EXCEPT ![t.ref] =
                            Append(@, [reason |-> t.reason, duration |-> t.duration])]
         /\ activeCalls' = m2
         /\ IF i = 0
            THEN /\ tasks' = tasks (-) SetToBag({t})
                 /\ last' = [Step(IF t.origin = "close" THEN "CloseDone" ELSE "EndDone",
                                   t.user, t.callId, t.ref)
                               EXCEPT !.targets = t.targets, !.origin = t.origin,
                                      !.connectedAt = t.connectedAt]
                 /\ UNCHANGED <<callObjs, dbCalls, faults>>
            ELSE /\ callObjs' = EndedObjs(callObjs, ref2)
                 /\ DbWrite(DbUpdateEnded(dbCalls, callObjs[ref2].id,
                                  Duration(callObjs[ref2].connectedAt, now), t.reason))
                 /\ tasks' = (tasks (-) SetToBag({t})) (+)
                      SetToBag({EndTask(t.origin, t.user, ref2, t.reason,
                                        SubSeq(t.rest, i + 1, Len(t.rest)), t.targets)})
                 /\ last' = [Step("EndNext", t.user, t.callId, t.ref)
                               EXCEPT !.origin = t.origin, !.connectedAt = t.connectedAt]
  /\ UNCHANGED <<sockets, connections, userConnections, dbPresence, timers, now,
                 used, onlineSent>>
  /\ UNCHANGED relayVars

\* the ringing-timeout callback scheduled by handleCallOffer
TimerFire(tm) ==
  /\ now >= tm.due
  /\ timers' = timers (-) SetToBag({tm})
  /\ LET ref == MapGet(activeCalls, tm.callId)
     IN  IF TimerStillRinging(callObjs, activeCalls, tm.callId)
         THEN /\ callObjs' = EndedObjs(callObjs, ref)
              /\ DbWrite(DbUpdateEnded(dbCalls, callObjs[ref].id,
                               Duration(callObjs[ref].connectedAt, now), "timeout"))
              /\ tasks' = tasks (+) SetToBag({EndTask("timeout", "none", ref, "timeout", <<>>, {})})
              /\ last' = Step("TimerEnd", "none", tm.callId, ref)
         ELSE /\ last' = Step("TimerNoop", "none", tm.callId, ref)
              /\ UNCHANGED <<callObjs, dbCalls, tasks, faults>>
  /\ out' = {}
  /\ UNCHANGED <<sockets, connections, userConnections, activeCalls, dbPresence,
                 now, used, endedSent, onlineSent>>
  /\ UNCHANGED relayVars

\* ---------------------------------------- signalingHandler: socket 'close'
\* what the close cascade is expected to end: the user's non-ended calls
CloseTargets(objs, m, uid) ==
  {[ref |-> m[i].ref, duration |-> Duration(objs[m[i].ref].connectedAt, now)] :
     i \in {j \in 1 .. Len(m) :
              /\ objs[m[j].ref].callerId = uid \/ objs[m[j].ref].calleeId = uid
              /\ objs[m[j].ref].status # "ended"}}

\* whether the registry still holds the connection when its listener runs
Registered(conn) == IF conn \in DOMAIN connections THEN "registered" ELSE "removed"

SignalingClose(conn) ==
  /\ sockets[conn] = "open" /\ ConnNs(conn) = "signaling"
  /\ conn \in CloseInputs
  /\ sockets' = [sockets EXCEPT ![conn] = "closed"]
  /\ LET r == RemoveConnection(connections, userConnections, conn)
     IN  connections' = r.c /\ userConnections' = r.u
  /\ LET uid == ConnUser(conn)
         ids == UserCalls(callObjs, activeCalls, uid)
         targets == CloseTargets(callObjs, activeCalls, uid)
         ref == MapGet(activeCalls, ids[1])
     IN  IF Len(ids) = 0
         THEN /\ last' = [Step("CloseDone", uid, "none", NoRef)
                            EXCEPT !.status = Registered(conn)]
              /\ UNCHANGED <<callObjs, dbCalls, tasks, faults>>
         ELSE /\ callObjs' = EndedObjs(callObjs, ref)
              /\ DbWrite(DbUpdateEnded(dbCalls, callObjs[ref].id,
                               Duration(callObjs[ref].connectedAt, now), "connection_lost"))
              /\ tasks' = tasks (+) SetToBag({EndTask("close", uid, ref, "connection_lost",
                                                      Tail(ids), targets)})
              /\ last' = [Step("CloseBegin", uid, ids[1], ref)
                            EXCEPT !.targets = targets, !.status = Registered(conn)]
  /\ out' = {}
  /\ UNCHANGED <<activeCalls, dbPresence, timers, now, used, endedSent, onlineSent>>
  /\ UNCHANGED relayVars

\* time passes.  The clock is read only by the ring timers (due = now + 30000)
\* and by the duration of an answered call (now - connectedAt), both relative,
\* so the clock advances only while one of the two is there to observe it: a
\* timer that is not yet due, or an answered call that has not ended.
Tick ==
  /\ now < MaxTicks * TickMs
  /\ \/ \E tm \in BagToSet(timers) : tm.due > now
     \/ \E r \in DOMAIN callObjs :
          callObjs[r].connectedAt # Unset /\ callObjs[r].status # "ended"
  /\ now' = now + TickMs
  /\ out' = {}
  /\ last' = Step("Tick", "none", "none", NoRef)
  /\ UNCHANGED <<sockets, connections, userConnections, callObjs, activeCalls,
                 dbCalls, dbPresence, tasks, timers, used, endedSent, onlineSent, faults>>
  /\ UNCHANGED relayVars

\* ---------------------------------------------------- the signaling engine
Next ==
  \/ \E i \in OfferInputs : OfferValidate(<<"signaling", i[1], 1>>, i[2], i[3])
  \/ \E t \in BagToSet(tasks) : OfferForward(t)
  \/ \E t \in BagToSet(tasks) : OfferConfirm(t)
  \/ \E i \in AnswerInputs : AnswerReceive(<<"signaling", i[1], 1>>, i[2])
  \/ \E t \in BagToSet(tasks) : AnswerForward(t)
  \/ \E i \in HangupInputs, r \in HangupReasons :
        HangupReceive(<<"signaling", i[1], 1>>, i[2], r)
  \/ \E t \in BagToSet(tasks) : EndNotify(t)
  \/ \E tm \in BagToSet(timers) : TimerFire(tm)
  \/ \E conn \in ConnIds : SignalingClose(conn)
  \/ Tick

Spec == Init /\ [][Next]_vars

\* --------------------------------------------------- handleCallCandidate
\* a call_candidate envelope: lookup, party check, forward to the other party.
\* The handler awaits nothing and writes to no session.
CandidateTargetCaller(call, uid) == call.callerId
CandidateTarget(call, uid) ==
  IF call.callerId = uid THEN call.calleeId ELSE call.callerId

CandidateReceive(conn, callId) ==
  /\ sockets[conn] = "open" /\ ConnNs(conn) = "signaling"
  /\ used.env < MaxEnvelopes
  /\ used' = [used EXCEPT !.env = @ + 1]
  /\ LET uid == ConnUser(conn)
         ref == MapGet(activeCalls, callId)
     IN  IF ref = NoRef
         THEN /\ out' = {}
              /\ last' = Step("CandidateNoCall", uid, callId, NoRef)
         ELSE IF ~IsParty(callObjs[ref], uid)
         THEN /\ out' = {}
              /\ last' = Step("CandidateNotParty", uid, callId, ref)
         ELSE /\ out' = {Bcast(CandidateTarget(callObjs[ref], uid),
                               "call_candidate_received", callObjs[ref].id, ref,
                               "none", Unset)}
              /\ last' = [Step("CandidateForward", uid, callId, ref)
                            EXCEPT !.target = CandidateTarget(callObjs[ref], uid)]
  /\ UNCHANGED <<sockets, connections, userConnections, callObjs, activeCalls,
                 dbCalls, dbPresence, tasks, timers, now, endedSent, onlineSent, faults>>
  /\ UNCHANGED relayVars

\* ---------------------------------------- signalingHandler: socket 'error'
\* the error listener only takes the connection out of the registry; the
\* socket's 'close' event follows and runs the close listener
SignalingError(conn) ==
  /\ sockets[conn] = "open" /\ ConnNs(conn) = "signaling"
  /\ conn \in CloseInputs
  /\ conn \in DOMAIN connections
  /\ LET r == RemoveConnection(connections, userConnections, conn)
     IN  connections' = r.c /\ userConnections' = r.u
  /\ out' = {}
  /\ last' = Step("SignalingError", ConnUser(conn), "none", NoRef)
  /\ UNCHANGED <<sockets, callObjs, activeCalls, dbCalls, dbPresence, tasks, timers,
                 now, used, endedSent, onlineSent, faults>>
  /\ UNCHANGED relayVars

\* ------------------------------- the signaling engine with failing writes
\* two callers who offer to the same callee, the callee's answer, ICE
\* candidates, and writes to the calls table that may fail
FaultOfferInputs == {<<"B", "p1", "c1">>, <<"C", "p2", "c2">>}
FaultAnswerInputs == {<<"A", "c1">>}
FaultHangupInputs == {<<"B", "c1">>}
CandidateInputs == {<<"A", "c1">>, <<"B", "c1">>, <<"C", "c1">>}

InitSignalingFaults ==
  /\ sockets = [id \in ConnIds |-> IF id \in InitSignalingConns THEN "open" ELSE "new"]
  /\ connections = [id \in InitSignalingConns |->
                      [userId |-> ConnUser(id), namespace |-> ConnNs(id)]]
  /\ userConnections = [u \in Users |-> {<<"signaling", u, 1>>}]
  /\ callObjs = <<>>
  /\ activeCalls = <<>>
  /\ dbCalls = [c \in CallIds |-> NoRow]
  /\ dbPresence = [u \in Users |-> "offline"]
  /\ tasks = EmptyBag
  /\ timers = EmptyBag
  /\ now = 0
  /\ used = [env |-> 0]
  /\ endedSent = <<>>
  /\ onlineSent = [u \in Users |-> 0]
  /\ out = {}
  /\ last = Step("Init", "none", "none", NoRef)
  /\ dbProfiles = profiles
  /\ dbMessages = <<>>
  /\ lastHeartbeat = [id \in ConnIds |-> 0]
  /\ wire = <<>>
  /\ faults = MaxFaults

NextSignalingFaults ==
  \/ \E i \in FaultOfferInputs : OfferValidate(<<"signaling", i[1], 1>>, i[2], i[3])
  \/ \E t \in BagToSet(tasks) : OfferForward(t)
  \/ \E t \in BagToSet(tasks) : OfferConfirm(t)
  \/ \E i \in FaultAnswerInputs : AnswerReceive(<<"signaling", i[1], 1>>, i[2])
  \/ \E t \in BagToSet(tasks) : AnswerForward(t)
  \/ \E i \in FaultHangupInputs, r \in HangupReasons :
        HangupReceive(<<"signaling", i[1], 1>>, i[2], r)
  \/ \E i \in CandidateInputs : CandidateReceive(<<"signaling", i[1], 1>>, i[2])
  \/ \E t \in BagToSet(tasks) : EndNotify(t)
  \/ \E tm \in BagToSet(timers) : TimerFire(tm)
  \/ \E conn \in ConnIds : SignalingError(conn)
  \/ \E conn \in ConnIds : SignalingClose(conn)
  \/ Tick

SpecSignalingFaults == InitSignalingFaults /\ [][NextSignalingFaults]_vars

\* ------------------------------------------------------- presenceHandler
ActivePartners(uid) ==
  {OtherMember(pairings[p], uid) :
     p \in {q \in DOMAIN pairings :
              pairings[q].status = "active" /\ IsMember(pairings[q], uid)}}

ShouldNotifyNoDnd(rows, uid) ==
  ~(rows[uid].user_type = "student" /\ ~rows[uid].visible_to_partner)
ShouldNotify(rows, uid) ==
  /\ ~(rows[uid].user_type = "student" /\ ~rows[uid].visible_to_partner)
  /\ ~rows[uid].dnd_enabled

\* what notifyPairedPartners broadcasts
NotifyPairedPartners(uid, status) ==
  IF ShouldNotify(dbProfiles, uid)
  THEN {PresenceBcast(v, uid, status) : v \in ActivePartners(uid)}
  ELSE {}

callVars == <<callObjs, activeCalls, dbCalls, timers, now, used, endedSent, faults>>

\* a presence connection is accepted: addConnection, then presenceHandler up
\* to the await of the upsert that sets the user online
PresenceConnect(conn) ==
  /\ ConnNs(conn) = "presence" /\ sockets[conn] = "new"
  /\ sockets' = [sockets EXCEPT ![conn] = "setup"]
  /\ LET r == AddConnection(connections, userConnections, conn)
     IN  connections' = r.c /\ userConnections' = r.u
  /\ dbPresence' = [dbPresence EXCEPT ![ConnUser(conn)] = "online"]
  /\ tasks' = tasks (+) SetToBag({[kind |-> "pconnect", pc |-> "notify", conn |-> conn]})
  /\ out' = {}
  /\ last' = Step("PresenceConnect", ConnUser(conn), "none", NoRef)
  /\ UNCHANGED <<callVars, onlineSent>>
  /\ lastHeartbeat' = [lastHeartbeat EXCEPT ![conn] = now]
  /\ UNCHANGED <<dbProfiles, dbMessages, wire>>

\* the upsert and the queries of notifyPairedPartners returned: broadcast
PresenceNotifyOnline(t) ==
  /\ t.kind = "pconnect" /\ t.pc = "notify"
  /\ out' = NotifyPairedPartners(ConnUser(t.conn), "online")
  /\ onlineSent' = [onlineSent EXCEPT ![ConnUser(t.conn)] =
                      IF NotifyPairedPartners(ConnUser(t.conn), "online") # {}
                      THEN @ + 1 ELSE @]
  /\ tasks' = (tasks (-) SetToBag({t})) (+) SetToBag({[t EXCEPT !.pc = "snapshot"]})
  /\ last' = Step("PresenceNotifyOnline", ConnUser(t.conn), "none", NoRef)
  /\ UNCHANGED <<callVars, sockets, connections, userConnections, dbPresence>>
  /\ UNCHANGED relayVars

\* the partner's record is shown unless it is a hidden student
ShowAnyPresence(rows, partnerId) == TRUE
ShouldShowPresence(rows, partnerId) ==
  ~(rows[partnerId].user_type = "student" /\ ~rows[partnerId].visible_to_partner)

\* what getUserPresenceState returns: the own row, and the row of the other
\* member of every active pairing whose presence may be shown
GetUserPresenceState(uid) ==
  [own |-> [userId |-> uid, status |-> dbPresence[uid]],
   partners |-> {[userId |-> v, status |-> dbPresence[v]] :
                   v \in {w \in ActivePartners(uid) : ShouldShowPresence(dbProfiles, w)}}]

SnapshotReply(conn, state) ==
  [kind |-> "reply", user |-> ConnUser(conn), conn |-> conn, type |-> "presence_state",
   callId |-> "none", ref |-> NoRef, info |-> "none", duration |-> Unset,
   subject |-> "none", snapshot |-> state]

\* getUserPresenceState returned: send presence_state, attach the listeners
PresenceSnapshot(t) ==
  /\ t.kind = "pconnect" /\ t.pc = "snapshot"
  /\ out' = {SnapshotReply(t.conn, GetUserPresenceState(ConnUser(t.conn)))}
  /\ sockets' = [sockets EXCEPT ![t.conn] = "open"]
  /\ tasks' = tasks (-) SetToBag({t})
  /\ last' = Step("PresenceSnapshot", ConnUser(t.conn), "none", NoRef)
  /\ UNCHANGED <<callVars, connections, userConnections, dbPresence, onlineSent>>
  /\ UNCHANGED relayVars

\* socket 'close' on a presence connection
PresenceClose(conn) ==
  /\ ConnNs(conn) = "presence" /\ sockets[conn] = "open"
  /\ sockets' = [sockets EXCEPT ![conn] = "closed"]
  /\ LET r == RemoveConnection(connections, userConnections, conn)
         uid == ConnUser(conn)
     IN  /\ connections' = r.c /\ userConnections' = r.u
         /\ IF GetUserConnections(r.c, r.u, uid) = {}
            THEN /\ dbPresence' = [dbPresence EXCEPT ![uid] = "offline"]
                 /\ onlineSent' = [onlineSent EXCEPT ![uid] = 0]
                 /\ tasks' = tasks (+) SetToBag({[kind |-> "pclose", pc |-> "notify",
                                                  conn |-> conn]})
                 /\ last' = Step("PresenceCloseOffline", uid, "none", NoRef)
            ELSE /\ last' = Step("PresenceCloseStay", uid, "none", NoRef)
                 /\ UNCHANGED <<dbPresence, onlineSent, tasks>>
  /\ out' = {}
  /\ UNCHANGED callVars
  /\ UNCHANGED relayVars

PresenceNotifyOffline(t) ==
  /\ t.kind = "pclose"
  /\ out' = NotifyPairedPartners(ConnUser(t.conn), "offline")
  /\ tasks' = tasks (-) SetToBag({t})
  /\ last' = Step("PresenceNotifyOffline", ConnUser(t.conn), "none", NoRef)
  /\ UNCHANGED <<callVars, sockets, connections, userConnections, dbPresence, onlineSent>>
  /\ UNCHANGED relayVars

\* ------------------------------------ chatHandler: connection and 'close'
ChatConnect(conn) ==
  /\ ConnNs(conn) = "chat" /\ sockets[conn] = "new"
  /\ sockets' = [sockets EXCEPT ![conn] = "open"]
  /\ LET r == AddConnection(connections, userConnections, conn)
     IN  connections' = r.c /\ userConnections' = r.u
  /\ out' = {Reply(conn, "chat_state", "none", "none")}
  /\ last' = Step("ChatConnect", ConnUser(conn), "none", NoRef)
  /\ UNCHANGED <<callVars, dbPresence, tasks, onlineSent>>
  /\ lastHeartbeat' = [lastHeartbeat EXCEPT ![conn] = now]
  /\ UNCHANGED <<dbProfiles, dbMessages, wire>>

ChatClose(conn) ==
  /\ ConnNs(conn) = "chat" /\ sockets[conn] = "open"
  /\ sockets' = [sockets EXCEPT ![conn] = "closed"]
  /\ LET r == RemoveConnection(connections, userConnections, conn)
     IN  connections' = r.c /\ userConnections' = r.u
  /\ tasks' = tasks (+) SetToBag({[kind |-> "cclose", pc |-> "clear", conn |-> conn]})
  /\ out' = {}
  /\ last' = Step("ChatClose", ConnUser(conn), "none", NoRef)
  /\ UNCHANGED <<callVars, dbPresence, onlineSent>>
  /\ UNCHANGED relayVars

\* clearTypingIndicators after its queries
ChatCloseClear(t) ==
  /\ t.kind = "cclose"
  /\ out' = {TypingBcast(v, ConnUser(t.conn)) : v \in ActivePartners(ConnUser(t.conn))}
  /\ tasks' = tasks (-) SetToBag({t})
  /\ last' = Step("ChatCloseClear", ConnUser(t.conn), "none", NoRef)
  /\ UNCHANGED <<callVars, sockets, connections, userConnections, dbPresence, onlineSent>>
  /\ UNCHANGED relayVars

\* ------------------------------------------ signalingHandler: connection
SignalingConnect(conn) ==
  /\ ConnNs(conn) = "signaling" /\ sockets[conn] = "new"
  /\ sockets' = [sockets EXCEPT ![conn] = "open"]
  /\ LET r == AddConnection(connections, userConnections, conn)
     IN  connections' = r.c /\ userConnections' = r.u
  /\ out' = {Reply(conn, "signaling_state", "none", "none")}
  /\ last' = Step("SignalingConnect", ConnUser(conn), "none", NoRef)
  /\ UNCHANGED <<callVars, dbPresence, tasks, onlineSent>>
  /\ lastHeartbeat' = [lastHeartbeat EXCEPT ![conn] = now]
  /\ UNCHANGED <<dbProfiles, dbMessages, wire>>

\* --------------------------------------- connections coming and going
\* the connections that are opened: every channel of A, one presence
\* connection of B
PresenceSpecConns ==
  {id \in ConnIds : ConnUser(id) = "A"} \cup {<<"presence", "B", 1>>}

InitPresence ==
  /\ sockets = [id \in ConnIds |-> "new"]
  /\ connections = <<>>
  /\ userConnections = <<>>
  /\ callObjs = <<>>
  /\ activeCalls = <<>>
  /\ dbCalls = [c \in CallIds |-> NoRow]
  /\ dbPresence = [u \in Users |-> "offline"]
  /\ tasks = EmptyBag
  /\ timers = EmptyBag
  /\ now = 0
  /\ used = [env |-> 0]
  /\ endedSent = <<>>
  /\ onlineSent = [u \in Users |-> 0]
  /\ out = {}
  /\ last = Step("Init", "none", "none", NoRef)
  /\ dbProfiles = profiles
  /\ dbMessages = <<>>
  /\ lastHeartbeat = [id \in ConnIds |-> 0]
  /\ wire = <<>>
  /\ faults = 0

NextPresence ==
  \/ \E conn \in PresenceSpecConns : PresenceConnect(conn)
  \/ \E t \in BagToSet(tasks) : PresenceNotifyOnline(t)
  \/ \E t \in BagToSet(tasks) : PresenceSnapshot(t)
  \/ \E conn \in PresenceSpecConns : PresenceClose(conn)
  \/ \E t \in BagToSet(tasks) : PresenceNotifyOffline(t)
  \/ \E conn \in PresenceSpecConns : ChatConnect(conn)
  \/ \E conn \in PresenceSpecConns : ChatClose(conn)
  \/ \E t \in BagToSet(tasks) : ChatCloseClear(t)
  \/ \E conn \in PresenceSpecConns : SignalingConnect(conn)
  \/ \E conn \in PresenceSpecConns : SignalingClose(conn)

SpecPresence == InitPresence /\ [][NextPresence]_vars

\* ------------------------------------- presenceHandler: inbound envelopes
\* <<sending user, status carried ("none": no status)>>
HeartbeatInputs == {<<"A", "none">>, <<"A", "online">>, <<"A", "away">>, <<"B", "busy">>}
\* <<sending user, data.userId, data.status>>
UpdateInputs ==
  {<<"A", "A", "busy">>, <<"A", "B", "away">>, <<"B", "B", "away">>, <<"B", "A", "offline">>}

\* handleHeartbeat up to its first await: a heartbeat that carries a status
\* upserts it; one without is acknowledged at once
HeartbeatReceive(conn, status) ==
  /\ ConnNs(conn) = "presence" /\ sockets[conn] = "open"
  /\ used.env < MaxEnvelopes
  /\ used' = [used EXCEPT !.env = @ + 1]
  /\ lastHeartbeat' = [lastHeartbeat EXCEPT ![conn] = now]
  /\ IF status # "none"
     THEN /\ dbPresence' = [dbPresence EXCEPT ![ConnUser(conn)] = status]
          /\ tasks' = tasks (+) SetToBag({[kind |-> "hb", pc |-> "notify", conn |-> conn,
                                           status |-> status,
                                           was |-> dbPresence[ConnUser(conn)]]})
          /\ out' = {}
          /\ last' = [Step("HeartbeatPersist", ConnUser(conn), "none", NoRef)
                        EXCEPT !.status = status]
     ELSE /\ out' = {Reply(conn, "heartbeat_ack", "none", "none")}
          /\ last' = Step("HeartbeatAck", ConnUser(conn), "none", NoRef)
          /\ UNCHANGED <<dbPresence, tasks>>
  /\ UNCHANGED <<sockets, connections, userConnections, callObjs, activeCalls, dbCalls,
                 timers, now, endedSent, onlineSent, dbProfiles, dbMessages, wire, faults>>

\* the queries of notifyPairedPartners returned: broadcast, then acknowledge
HeartbeatNotify(t) ==
  /\ t.kind = "hb"
  /\ out' = NotifyPairedPartners(ConnUser(t.conn), t.status)
              \cup {Reply(t.conn, "heartbeat_ack", "none", "none")}
  /\ tasks' = tasks (-) SetToBag({t})
  /\ last' = [Step("HeartbeatNotify", ConnUser(t.conn), "none", NoRef)
                EXCEPT !.status = t.status, !.origin = t.was]
  /\ UNCHANGED <<callVars, relayVars, sockets, connections, userConnections, dbPresence,
                 onlineSent>>

\* users may update their own presence only
AnyPresence(target, uid) == TRUE
OwnPresence(target, uid) == target = uid

\* handlePresenceUpdate up to its first await
PresenceUpdateReceive(conn, target, status) ==
  /\ ConnNs(conn) = "presence" /\ sockets[conn] = "open"
  /\ used.env < MaxEnvelopes
  /\ used' = [used EXCEPT !.env = @ + 1]
  /\ lastHeartbeat' = [lastHeartbeat EXCEPT ![conn] = now]
  /\ IF ~OwnPresence(target, ConnUser(conn))
     THEN /\ out' = {Reply(conn, "error", "none", "Forbidden")}
          /\ last' = [Step("PresenceUpdateForbidden", ConnUser(conn), "none", NoRef)
                        EXCEPT !.status = status, !.target = target]
          /\ UNCHANGED <<dbPresence, tasks>>
     ELSE /\ dbPresence' = [dbPresence EXCEPT ![target] = status]
          /\ tasks' = tasks (+) SetToBag({[kind |-> "pu", pc |-> "notify", conn |-> conn,
                                           target |-> target, status |-> status]})
          /\ out' = {}
          /\ last' = [Step("PresenceUpdatePersist", ConnUser(conn), "none", NoRef)
                        EXCEPT !.status = status, !.target = target]
  /\ UNCHANGED <<sockets, connections, userConnections, callObjs, activeCalls, dbCalls,
                 timers, now, endedSent, onlineSent, dbProfiles, dbMessages, wire, faults>>

\* the queries of notifyPairedPartners returned: broadcast, then confirm
PresenceUpdateNotify(t) ==
  /\ t.kind = "pu"
  /\ out' = NotifyPairedPartners(t.target, t.status)
              \cup {Reply(t.conn, "presence_updated", "none", t.status)}
  /\ tasks' = tasks (-) SetToBag({t})
  /\ last' = [Step("PresenceUpdateNotify", ConnUser(t.conn), "none", NoRef)
                EXCEPT !.status = t.status, !.target = t.target]
  /\ UNCHANGED <<callVars, relayVars, sockets, connections, userConnections, dbPresence,
                 onlineSent>>

\* the profile rows that are tried: the seed, the student hidden from the
\* partners, a parent with do-not-disturb
ProfileConfigs ==
  {profiles,
   [profiles EXCEPT !["A"].visible_to_partner = FALSE],
   [profiles EXCEPT !["B"].dnd_enabled = TRUE]}

PresenceMsgConns == {<<"presence", "A", 1>>, <<"presence", "B", 1>>}

InitPresenceMsg ==
  /\ sockets = [id \in ConnIds |-> "new"]
  /\ connections = <<>>
  /\ userConnections = <<>>
  /\ callObjs = <<>>
  /\ activeCalls = <<>>
  /\ dbCalls = [c \in CallIds |-> NoRow]
  /\ dbPresence = [u \in Users |-> "offline"]
  /\ tasks = EmptyBag
  /\ timers = EmptyBag
  /\ now = 0
  /\ used = [env |-> 0]
  /\ endedSent = <<>>
  /\ onlineSent = [u \in Users |-> 0]
  /\ out = {}
  /\ last = Step("Init", "none", "none", NoRef)
  /\ dbProfiles \in ProfileConfigs
  /\ dbMessages = <<>>
  /\ lastHeartbeat = [id \in ConnIds |-> 0]
  /\ wire = <<>>
  /\ faults = 0

NextPresenceMsg ==
  \/ \E conn \in PresenceMsgConns : PresenceConnect(conn)
  \/ \E t \in BagToSet(tasks) : PresenceNotifyOnline(t)
  \/ \E t \in BagToSet(tasks) : PresenceSnapshot(t)
  \/ \E conn \in PresenceMsgConns : PresenceClose(conn)
  \/ \E t \in BagToSet(tasks) : PresenceNotifyOffline(t)
  \/ \E i \in HeartbeatInputs : HeartbeatReceive(<<"presence", i[1], 1>>, i[2])
  \/ \E t \in BagToSet(tasks) : HeartbeatNotify(t)
  \/ \E i \in UpdateInputs : PresenceUpdateReceive(<<"presence", i[1], 1>>, i[2], i[3])
  \/ \E t \in BagToSet(tasks) : PresenceUpdateNotify(t)

SpecPresenceMsg == InitPresenceMsg /\ [][NextPresenceMsg]_vars

\* ------------------------------------------------------------ chat relay
\* <<sending user, data.pairingId, data.senderId>>
ChatInputs ==
  {<<"A", "p1", "A">>, <<"B", "p2", "B">>, <<"B", "p3", "B">>, <<"C", "p1", "C">>,
   <<"A", "p1", "B">>}
\* <<sending user, data.pairingId>>
TypingInputs == {<<"A", "p1">>, <<"B", "p2">>, <<"B", "p0">>}
\* <<sending user, data.messageId>>
ReadInputs == {<<"B", 1>>, <<"A", 1>>, <<"B", 2>>, <<"C", 1>>}

\* what the chat relay never touches
callState == <<callObjs, activeCalls, dbCalls, timers, endedSent, faults>>
chatFrame == <<callState, sockets, dbPresence, onlineSent, dbProfiles>>

\* one socket.send
Send(conn, type, msg, info, subject) ==
  [conn |-> conn, type |-> type, msg |-> msg, info |-> info, subject |-> subject]

\* the ids of a Set, in its iteration order
RECURSIVE SetSeq(_)
SetSeq(S) ==
  IF S = {} THEN <<>>
  ELSE LET x == CHOOSE y \in S : TRUE IN <<x>> \o SetSeq(S \ {x})

\* the forEach of broadcastToUser over the array that getUserConnections
\* returned: the excluded id is skipped; a send that throws is caught and its
\* connection removed, and the loop goes on.  `failing` are the connections
\* whose send throws.
RECURSIVE SendEachUncaught(_, _, _, _, _, _)
SendEachUncaught(ids, exclude, failing, conns, byUser, env) ==
  IF ids = <<>> THEN [wire |-> <<>>, c |-> conns, u |-> byUser, raised |-> FALSE]
  ELSE IF Head(ids) = exclude
  THEN SendEachUncaught(Tail(ids), exclude, failing, conns, byUser, env)
  ELSE IF Head(ids) \in failing
  THEN [wire |-> <<>>, c |-> conns, u |-> byUser, raised |-> TRUE]
  ELSE LET rest == SendEachUncaught(Tail(ids), exclude, failing, conns, byUser, env)
       IN  [rest EXCEPT !.wire = <<[env EXCEPT !.conn = Head(ids)]>> \o @]
RECURSIVE SendEach(_, _, _, _, _, _)
SendEach(ids, exclude, failing, conns, byUser, env) ==
  IF ids = <<>> THEN [wire |-> <<>>, c |-> conns, u |-> byUser, raised |-> FALSE]
  ELSE IF Head(ids) = exclude
  THEN SendEach(Tail(ids), exclude, failing, conns, byUser, env)
  ELSE IF Head(ids) \in failing
  THEN LET r == RemoveConnection(conns, byUser, Head(ids))
       IN  SendEach(Tail(ids), exclude, failing, r.c, r.u, env)
  ELSE LET rest == SendEach(Tail(ids), exclude, failing, conns, byUser, env)
       IN  [rest EXCEPT !.wire = <<[env EXCEPT !.conn = Head(ids)]>> \o @]

\* ConnectionManager.broadcastToUser when every send goes through: one send
\* per registered connection of the user
BroadcastToUser(conns, byUser, uid, type, msg, info, subject) ==
  SendEach(SetSeq(GetUserConnections(conns, byUser, uid)), NoConn, {}, conns, byUser,
           Send(NoConn, type, msg, info, subject)).wire

\* AuthService.hasPermission
HasPermission(rows, uid, action, resourceId) ==
  IF uid \notin DOMAIN rows THEN FALSE
  ELSE IF rows[uid].user_type = "admin" THEN TRUE
  ELSE LET pairing == dbAnyPairing(resourceId)
       IN  CASE action \in {"read_pairing", "update_pairing"} ->
                  pairing # NoPairing /\ IsMember(pairing, uid)
             [] action = "send_message" ->
                  /\ pairing # NoPairing
                  /\ pairing.status = "active"
                  /\ IsMember(pairing, uid)
             [] OTHER -> FALSE

NoMessage == 0

\* handleChatMessage: the permission check and the insert it then awaits.  The
\* queries of hasPermission read tables that no handler writes, so the arrival
\* of the envelope and the check are one step.  The insert fails or succeeds;
\* into a pairing that has no row it fails.
ChatAuthorize(conn, pairingId, senderId) ==
  /\ ConnNs(conn) = "chat" /\ sockets[conn] = "open"
  /\ used.env < MaxEnvelopes
  /\ used' = [used EXCEPT !.env = @ + 1]
  /\ lastHeartbeat' = [lastHeartbeat EXCEPT ![conn] = now]
  /\ IF ~HasPermission(dbProfiles, ConnUser(conn), "send_message", pairingId)
     THEN /\ wire' = <<Send(conn, "error", NoMessage, "Forbidden", "none")>>
          /\ last' = [Step("ChatForbidden", ConnUser(conn), "none", NoRef)
                        EXCEPT !.pairingId = pairingId]
          /\ UNCHANGED <<dbMessages, tasks>>
     ELSE \E ok \in BOOLEAN :
            /\ ok => pairingId \in DOMAIN pairings
            /\ dbMessages' =
                 IF ok THEN Append(dbMessages, [pairing_id |-> pairingId,
                                                sender_id |-> senderId,
                                                read_at |-> Unset])
                 ELSE dbMessages
            /\ tasks' = tasks (+) SetToBag({[kind |-> "msg", pc |-> "saved", conn |-> conn,
                                             pairingId |-> pairingId,
                                             msg |-> IF ok THEN Len(dbMessages) + 1
                                                     ELSE NoMessage,
                                             error |-> ~ok]})
            /\ wire' = <<>>
            /\ last' = [Step("ChatInsert", ConnUser(conn), "none", NoRef)
                          EXCEPT !.pairingId = pairingId]
  /\ out' = {}
  /\ UNCHANGED <<chatFrame, connections, userConnections, now>>

\* the insert returned an error
InsertNeverFailed(t) == FALSE
InsertFailed(t) == t.error

\* the recipient's connections are sent message_received, then the sender's
\* connection message_sent
ConfirmThenDeliver(received, sent) == <<sent>> \o received
DeliverThenConfirm(received, sent) == received \o <<sent>>

\* handleChatMessage after the insert: the error reply, or the pairing query,
\* the broadcast to the recipient and the confirmation to the sender
ChatSaved(t) ==
  /\ t.kind = "msg" /\ t.pc = "saved"
  /\ LET uid == ConnUser(t.conn)
         pairing == dbAnyPairing(t.pairingId)
         recipientId == OtherMember(pairing, uid)
     IN  IF InsertFailed(t)
         THEN /\ wire' = <<Send(t.conn, "error", NoMessage, "Failed to send message",
                                "none")>>
              /\ tasks' = tasks (-) SetToBag({t})
              /\ last' = [Step("ChatSaveFailed", uid, "none", NoRef)
                            EXCEPT !.pairingId = t.pairingId]
         ELSE IF pairing = NoPairing
         THEN /\ wire' = <<>>
              /\ tasks' = tasks (-) SetToBag({t})
              /\ last' = [Step("ChatNoPairing", uid, "none", NoRef)
                            EXCEPT !.pairingId = t.pairingId, !.msg = t.msg]
         ELSE /\ wire' = DeliverThenConfirm(
                           BroadcastToUser(connections, userConnections, recipientId,
                                           "message_received", t.msg, "none", uid),
                           Send(t.conn, "message_sent", t.msg, "none", "none"))
              /\ tasks' = (tasks (-) SetToBag({t}))
                            (+) SetToBag({[t EXCEPT !.pc = "clear"]})
              /\ last' = [Step("ChatDelivered", uid, "none", NoRef)
                            EXCEPT !.pairingId = t.pairingId, !.msg = t.msg,
                                   !.target = recipientId]
  /\ out' = {}
  /\ UNCHANGED <<chatFrame, connections, userConnections, now, used, dbMessages,
                 lastHeartbeat>>

\* clearTypingIndicator after its pairing query; sendPushNotificationIfOffline
\* only reads and logs
ChatClearTyping(t) ==
  /\ t.kind = "msg" /\ t.pc = "clear"
  /\ LET uid == ConnUser(t.conn)
         pairing == dbAnyPairing(t.pairingId)
     IN  /\ wire' = IF pairing = NoPairing THEN <<>>
                    ELSE BroadcastToUser(connections, userConnections,
                                         OtherMember(pairing, uid),
                                         "typing_indicator", NoMessage, "false", uid)
         /\ last' = [Step("ChatClearTyping", uid, "none", NoRef)
                       EXCEPT !.pairingId = t.pairingId]
  /\ tasks' = tasks (-) SetToBag({t})
  /\ out' = {}
  /\ UNCHANGED <<chatFrame, connections, userConnections, now, used, dbMessages,
                 lastHeartbeat>>

\* handleTypingIndicator: the pairing query and the broadcast
TypingReceive(conn, pairingId) ==
  /\ ConnNs(conn) = "chat" /\ sockets[conn] = "open"
  /\ used.env < MaxEnvelopes
  /\ used' = [used EXCEPT !.env = @ + 1]
  /\ lastHeartbeat' = [lastHeartbeat EXCEPT ![conn] = now]
  /\ LET uid == ConnUser(conn)
         pairing == dbAnyPairing(pairingId)
     IN  IF pairing = NoPairing
         THEN /\ wire' = <<>>
              /\ last' = [Step("TypingNoPairing", uid, "none", NoRef)
                            EXCEPT !.pairingId = pairingId]
         ELSE /\ wire' = BroadcastToUser(connections, userConnections,
                                         OtherMember(pairing, uid),
                                         "typing_indicator", NoMessage, "true", uid)
              /\ last' = [Step("TypingForward", uid, "none", NoRef)
                            EXCEPT !.pairingId = pairingId,
                                   !.target = OtherMember(pairing, uid)]
  /\ out' = {}
  /\ UNCHANGED <<chatFrame, connections, userConnections, now, dbMessages, tasks>>

\* handleReadReceipt up to the await of its update, which fails or succeeds.
\* Message ids are uuids drawn by the server (uuidv4): an id that names no row
\* when the receipt arrives names no row later either.
ReadReceive(conn, messageId) ==
  /\ ConnNs(conn) = "chat" /\ sockets[conn] = "open"
  /\ used.env < MaxEnvelopes
  /\ used' = [used EXCEPT !.env = @ + 1]
  /\ lastHeartbeat' = [lastHeartbeat EXCEPT ![conn] = now]
  /\ \E ok \in BOOLEAN :
       LET id == IF messageId \in 1 .. Len(dbMessages) THEN messageId ELSE NoMessage
       IN  /\ dbMessages' =
                 IF ok /\ id # NoMessage
                 THEN [dbMessages EXCEPT ![id].read_at = now]
                 ELSE dbMessages
           /\ tasks' = tasks (+) SetToBag({[kind |-> "read", pc |-> "updated",
                                            conn |-> conn, msg |-> id, error |-> ~ok]})
           /\ last' = [Step("ReadUpdate", ConnUser(conn), "none", NoRef)
                         EXCEPT !.msg = id, !.status = IF ok THEN "ok" ELSE "error"]
  /\ wire' = <<>>
  /\ out' = {}
  /\ UNCHANGED <<chatFrame, connections, userConnections, now>>

\* the sender of the message is told, unless it is the reader
NotifyReaderToo(senderId, uid) == TRUE
NotifySender(senderId, uid) == senderId # uid

\* handleReadReceipt after the update: the message query and the broadcast
ReadForward(t) ==
  /\ t.kind = "read"
  /\ LET uid == ConnUser(t.conn)
         found == t.msg \in 1 .. Len(dbMessages)
     IN  IF t.error
         THEN /\ wire' = <<>>
              /\ last' = [Step("ReadFailed", uid, "none", NoRef)
                            EXCEPT !.msg = t.msg, !.status = "error"]
         ELSE IF found /\ NotifySender(dbMessages[t.msg].sender_id, uid)
         THEN /\ wire' = BroadcastToUser(connections, userConnections,
                                         dbMessages[t.msg].sender_id,
                                         "read_receipt_received", t.msg, "none", uid)
              /\ last' = [Step("ReadForwarded", uid, "none", NoRef)
                            EXCEPT !.msg = t.msg, !.status = "ok",
                                   !.target = dbMessages[t.msg].sender_id]
         ELSE /\ wire' = <<>>
              /\ last' = [Step("ReadSkipped", uid, "none", NoRef)
                            EXCEPT !.msg = t.msg, !.status = "ok"]
  /\ tasks' = tasks (-) SetToBag({t})
  /\ out' = {}
  /\ UNCHANGED <<chatFrame, connections, userConnections, now, used, dbMessages,
                 lastHeartbeat>>

\* ---------------------------------------------------- schema validation
\* an inbound frame as the schemas see it: whether it is JSON that has the
\* generic fields (id, type, namespace, data, timestamp), its type, its
\* namespace and the data fields that are there with a value of the right kind
MessageFields == {"pairingId", "content", "messageType", "senderId"}
TypingFields == {"pairingId", "userId", "isTyping"}
ReadFields == {"messageId", "readBy", "readAt"}
Frame(generic, type, ns, data) ==
  [generic |-> generic, type |-> type, namespace |-> ns, data |-> data]

WSMessageSchema(e) == e.generic /\ e.namespace \in Namespaces
ChatMessageSchema(e) ==
  /\ WSMessageSchema(e)
  /\ e.type = "message" /\ e.namespace = "chat" /\ MessageFields \subseteq e.data
TypingIndicatorMessageSchema(e) ==
  /\ WSMessageSchema(e)
  /\ e.type = "typing" /\ e.namespace = "chat" /\ TypingFields \subseteq e.data
ReadReceiptMessageSchema(e) ==
  /\ WSMessageSchema(e)
  /\ e.type = "read_receipt" /\ e.namespace = "chat" /\ ReadFields \subseteq e.data

\* the schema that the handler of the frame's type parses it with
ChatTypeSchema(e) ==
  CASE e.type = "message" -> ChatMessageSchema(e)
    [] e.type = "typing" -> TypingIndicatorMessageSchema(e)
    [] e.type = "read_receipt" -> ReadReceiptMessageSchema(e)
    [] OTHER -> TRUE

\* frames that some schema rejects, and one of a type the switch does not know
MalformedInputs ==
  {Frame(FALSE, "message", "chat", MessageFields),
   Frame(TRUE, "message", "video", MessageFields),
   Frame(TRUE, "message", "chat", {"content"}),
   Frame(TRUE, "read_receipt", "chat", {"messageId", "readBy"}),
   Frame(TRUE, "ping", "chat", {})}

\* the 'message' listener of the chat handler on a frame that is not a valid
\* envelope of a known type: the generic parse throws into the listener's
\* catch, which replies; the parse in a handler throws into the handler's own
\* catch, which logs; an unknown type is logged
ChatMalformed(conn, e) ==
  /\ ConnNs(conn) = "chat" /\ sockets[conn] = "open"
  /\ used.env < MaxEnvelopes
  /\ ~(WSMessageSchema(e) /\ ChatTypeSchema(e))
       \/ e.type \notin {"message", "typing", "read_receipt"}
  /\ used' = [used EXCEPT !.env = @ + 1]
  /\ IF ~WSMessageSchema(e)
     THEN /\ wire' = <<Send(conn, "error", NoMessage, "Invalid message format", "none")>>
          /\ last' = Step("EnvelopeRejected", ConnUser(conn), "none", NoRef)
          /\ UNCHANGED lastHeartbeat
     ELSE /\ lastHeartbeat' = [lastHeartbeat EXCEPT ![conn] = now]
          /\ wire' = <<>>
          /\ last' = Step(IF ChatTypeSchema(e) THEN "UnknownType" ELSE "PayloadRejected",
                          ConnUser(conn), "none", NoRef)
  /\ out' = {}
  /\ UNCHANGED <<chatFrame, connections, userConnections, now, dbMessages, tasks>>

\* ------------------------------------------------------- the stale sweep
RECURSIVE RemoveAll(_, _, _)
RemoveAll(conns, byUser, ids) ==
  IF ids = {} THEN [c |-> conns, u |-> byUser]
  ELSE LET id == CHOOSE x \in ids : TRUE
           r == RemoveConnection(conns, byUser, id)
       IN  RemoveAll(r.c, r.u, ids \ {id})

StaleConnections(conns, stamps, t) ==
  {id \in DOMAIN conns : t - stamps[id] > StaleTimeoutMs}

\* the interval passes and its callback runs: every registered connection
\* whose stamp is older than the timeout is removed from the registry
SweepTick ==
  /\ now < MaxSweepTicks * SweepIntervalMs
  /\ now' = now + SweepIntervalMs
  /\ LET r == RemoveAll(connections, userConnections,
                        StaleConnections(connections, lastHeartbeat, now'))
     IN  connections' = r.c /\ userConnections' = r.u
  /\ wire' = <<>>
  /\ out' = {}
  /\ last' = Step("SweepTick", "none", "none", NoRef)
  /\ UNCHANGED <<chatFrame, used, dbMessages, lastHeartbeat, tasks>>

\* ------------------------------------------------- the connection registry
\* ConnectionManager.broadcastToUser(userId, message, excludeConnectionId)
BroadcastCall(uid, exclude, failing) ==
  /\ LET r == SendEach(SetSeq(GetUserConnections(connections, userConnections, uid)),
                       exclude, failing, connections, userConnections,
                       Send(NoConn, "broadcast", NoMessage, "none", "none"))
     IN  /\ wire' = r.wire
         /\ connections' = r.c /\ userConnections' = r.u
         /\ last' = [Step("Broadcast", uid, "none", NoRef)
                       EXCEPT !.conn = exclude, !.targets = failing,
                              !.status = IF r.raised THEN "thrown" ELSE "returned"]
  /\ out' = {}
  /\ UNCHANGED <<chatFrame, now, used, dbMessages, lastHeartbeat, tasks>>

\* the connections that are open and registered at the start: three of A, two
\* of B; C connects later
InitRegistryConns ==
  {<<"presence", "A", 1>>, <<"chat", "A", 1>>, <<"signaling", "A", 1>>,
   <<"chat", "B", 1>>, <<"signaling", "B", 1>>}
RegistryConnects == {<<"chat", "C", 1>>, <<"signaling", "C", 1>>}
RegistryCloses == {<<"chat", "A", 1>>, <<"chat", "B", 1>>}
\* the excludeConnectionId arguments that are tried, and the connections whose
\* send may throw
BroadcastExcludes == {NoConn, <<"chat", "A", 1>>, <<"signaling", "B", 1>>}
BroadcastFailing == {<<"presence", "A", 1>>, <<"signaling", "A", 1>>, <<"chat", "B", 1>>}

InitRegistry ==
  /\ sockets = [id \in ConnIds |-> IF id \in InitRegistryConns THEN "open" ELSE "new"]
  /\ connections = [id \in InitRegistryConns |->
                      [userId |-> ConnUser(id), namespace |-> ConnNs(id)]]
  /\ userConnections =
       [u \in {"A", "B"} |-> {id \in InitRegistryConns : ConnUser(id) = u}]
  /\ callObjs = <<>>
  /\ activeCalls = <<>>
  /\ dbCalls = [c \in CallIds |-> NoRow]
  /\ dbPresence = [u \in Users |-> IF u = "A" THEN "online" ELSE "offline"]
  /\ tasks = EmptyBag
  /\ timers = EmptyBag
  /\ now = 0
  /\ used = [env |-> 0]
  /\ endedSent = <<>>
  /\ onlineSent = [u \in Users |-> 0]
  /\ out = {}
  /\ last = Step("Init", "none", "none", NoRef)
  /\ dbProfiles = profiles
  /\ dbMessages = <<>>
  /\ lastHeartbeat = [id \in ConnIds |-> 0]
  /\ wire = <<>>
  /\ faults = 0

NextRegistry ==
  \/ \E conn \in RegistryConnects : ChatConnect(conn)
  \/ \E conn \in RegistryConnects : SignalingConnect(conn)
  \/ \E conn \in RegistryCloses : ChatClose(conn)
  \/ \E t \in BagToSet(tasks) : ChatCloseClear(t)
  \/ \E conn \in ConnIds : SignalingError(conn)
  \/ \E conn \in ConnIds : SignalingClose(conn)
  \/ \E uid \in Users, exclude \in BroadcastExcludes, failing \in SUBSET BroadcastFailing :
        /\ failing \subseteq GetUserConnections(connections, userConnections, uid)
        /\ BroadcastCall(uid, exclude, failing)
  \/ SweepTick

SpecRegistry == InitRegistry /\ [][NextRegistry]_vars

\* ------------------------------------------------------- the chat engine
\* the profile rows of the chat runs: C is an administrator
ChatProfiles == [profiles EXCEPT !["C"].user_type = "admin"]
\* the connections that are open and registered: a chat connection of every
\* user, and a presence connection of B
InitChatConns == {<<"chat", u, 1>> : u \in Users} \cup {<<"presence", "B", 1>>}
\* the messages table holds one message of A in pairing p1
SeedMessages == <<[pairing_id |-> "p1", sender_id |-> "A", read_at |-> Unset]>>

InitChat ==
  /\ sockets = [id \in ConnIds |-> IF id \in InitChatConns THEN "open" ELSE "new"]
  /\ connections = [id \in InitChatConns |->
                      [userId |-> ConnUser(id), namespace |-> ConnNs(id)]]
  /\ userConnections = [u \in Users |-> {id \in InitChatConns : ConnUser(id) = u}]
  /\ callObjs = <<>>
  /\ activeCalls = <<>>
  /\ dbCalls = [c \in CallIds |-> NoRow]
  /\ dbPresence = [u \in Users |-> IF u = "B" THEN "online" ELSE "offline"]
  /\ tasks = EmptyBag
  /\ timers = EmptyBag
  /\ now = 0
  /\ used = [env |-> 0]
  /\ endedSent = <<>>
  /\ onlineSent = [u \in Users |-> 0]
  /\ out = {}
  /\ last = Step("Init", "none", "none", NoRef)
  /\ dbProfiles = ChatProfiles
  /\ dbMessages = SeedMessages
  /\ lastHeartbeat = [id \in ConnIds |-> 0]
  /\ wire = <<>>
  /\ faults = 0

NextChat ==
  \/ \E i \in ChatInputs : ChatAuthorize(<<"chat", i[1], 1>>, i[2], i[3])
  \/ \E t \in BagToSet(tasks) : ChatSaved(t)
  \/ \E t \in BagToSet(tasks) : ChatClearTyping(t)
  \/ \E i \in TypingInputs : TypingReceive(<<"chat", i[1], 1>>, i[2])
  \/ \E i \in ReadInputs : ReadReceive(<<"chat", i[1], 1>>, i[2])
  \/ \E t \in BagToSet(tasks) : ReadForward(t)
  \/ \E e \in MalformedInputs : ChatMalformed(<<"chat", "A", 1>>, e)
  \/ SweepTick

SpecChat == InitChat /\ [][NextChat]_vars

\* ================================================================ claims
\* vocabulary of the claims, read off the active-call map alone
Sessions == {activeCalls[i].ref : i \in 1 .. Len(activeCalls)}
HasId(c) == \E i \in 1 .. Len(activeCalls) : activeCalls[i].id = c
SessionOf(c) == callObjs[activeCalls[CHOOSE i \in 1 .. Len(activeCalls) : activeCalls[i].id = c].ref]
InNonEndedCall(u) ==
  \E r \in Sessions :
     callObjs[r].status # "ended" /\ u \in {callObjs[r].callerId, callObjs[r].calleeId}
PairingOk(p, u) ==
  /\ p \in DOMAIN pairings
  /\ pairings[p].status = "active"
  /\ u \in {pairings[p].student_id, pairings[p].parent_id}
Partner(p, u) == CHOOSE v \in {pairings[p].student_id, pairings[p].parent_id} : v # u
OfferActs == {"OfferCreate", "OfferBusy", "OfferForbidden", "OfferInvalidPairing"}
AnswerActs == {"AnswerAccept", "AnswerNotFound", "AnswerForbidden"}
TimerActs == {"TimerEnd", "TimerNoop"}
StatusRank(st) ==
  CASE st = "initiated" -> 0 [] st = "ringing" -> 1 [] st = "connected" -> 2
    [] st = "ended" -> 3

\* C1: every user is caller or callee of at most one session of the
\* active-call map whose status is not ended.
C1_AtMostOneCallPerUser ==
  \A u \in Users :
     Cardinality({r \in Sessions :
                    /\ callObjs[r].status # "ended"
                    /\ u \in {callObjs[r].callerId, callObjs[r].calleeId}}) <= 1

\* C2: an offer for an active pairing of the sender whose callee is in a
\* non-ended session is answered with call_error "User busy" and nothing else
\* happens: no session, no row, no forward to the callee, no timer.
C2_BusyOfferRejected ==
  [][(/\ last'.act \in OfferActs
      /\ PairingOk(last'.pairingId, last'.user)
      /\ InNonEndedCall(Partner(last'.pairingId, last'.user)))
     => /\ \E e \in out' :
             /\ out' = {e}
             /\ e.kind = "reply" /\ e.user = last'.user /\ e.type = "call_error"
             /\ e.info = "User busy" /\ e.callId = last'.callId
        /\ UNCHANGED <<activeCalls, callObjs, dbCalls, tasks, timers>>]_vars
C2_Witness ==
  /\ last.act = "OfferBusy"
  /\ \E e \in out : e.type = "call_error" /\ e.info = "User busy"
  /\ ~HasId(last.callId)

\* C3: call_ended for one session is sent to each of its parties at most once.
C3_CallEndedAtMostOnce ==
  \A r \in 1 .. Len(endedSent) : Len(endedSent[r]) <= 1

\* C4: the status of a session never moves backwards along
\* initiated -> ringing -> connected -> ended.
C4_StatusOnlyForward ==
  [][\A r \in 1 .. Len(callObjs) :
       StatusRank(callObjs'[r].status) >= StatusRank(callObjs[r].status)]_vars

\* C5: when the ringing timeout of a call fires on a session that is ringing
\* and was never answered, the session is ended with reason timeout and
\* duration 0; when that ending completes, caller and callee are both sent
\* call_ended (timeout, 0) and the call id is no longer in the map.
C5_RingingTimeoutEnds ==
  [][/\ (/\ last'.act \in TimerActs
         /\ HasId(last'.callId)
         /\ SessionOf(last'.callId).status = "ringing"
         /\ SessionOf(last'.callId).connectedAt = Unset)
        => /\ last'.act = "TimerEnd"
           /\ callObjs'[last'.ref].status = "ended"
           /\ \E t \in BagToSet(tasks') :
                /\ t.kind = "end" /\ t.ref = last'.ref
                /\ t.reason = "timeout" /\ t.duration = 0
     /\ (/\ last'.act = "EndDone"
         /\ last'.origin = "timeout"
         /\ last'.connectedAt = Unset)
        => /\ out' = {Bcast(u, "call_ended", last'.callId, last'.ref, "timeout", 0) :
                        u \in {callObjs[last'.ref].callerId, callObjs[last'.ref].calleeId}}
           /\ Cardinality(out') = 2
           /\ \A i \in 1 .. Len(activeCalls') :
                activeCalls'[i].id # last'.callId /\ activeCalls'[i].ref # last'.ref]_vars
C5_Witness ==
  /\ last.act = "EndDone" /\ last.origin = "timeout"
  /\ \E e \in out : e.type = "call_ended" /\ e.info = "timeout" /\ e.duration = 0
  /\ now >= RingTimeoutMs

\* C6: when the close handler of a signaling connection of U has finished,
\* every session that was non-ended with U as a party at the close has been
\* ended with reason connection_lost (call_ended to both parties, duration
\* from connected-at to the close) and is no longer in the map.
C6_CloseEndsAllCalls ==
  last.act = "CloseDone" =>
    \A tg \in last.targets :
       /\ tg.ref \notin Sessions
       /\ \E k \in 1 .. Len(endedSent[tg.ref]) :
            endedSent[tg.ref][k] = [reason |-> "connection_lost", duration |-> tg.duration]

\* C7: a call_answer whose call id is not in the map, or whose sender is not
\* that session's callee, is answered with call_error (not found, resp.
\* Forbidden) and changes nothing; otherwise it is accepted.
C7_AnswerOnlyByCallee ==
  [][last'.act \in AnswerActs =>
       LET rejected(info) ==
             /\ \E e \in out' :
                  /\ out' = {e}
                  /\ e.kind = "reply" /\ e.user = last'.user
                  /\ e.type = "call_error" /\ e.info = info
             /\ UNCHANGED <<callObjs, activeCalls, dbCalls, tasks>>
       IN  IF ~HasId(last'.callId) THEN rejected("Call not found")
           ELSE IF SessionOf(last'.callId).calleeId # last'.user THEN rejected("Forbidden")
           ELSE /\ last'.act = "AnswerAccept"
                /\ callObjs'[last'.ref].status = "connected"]_vars
C7_Witness ==
  /\ last.act = "AnswerForbidden"
  /\ HasId(last.callId) /\ SessionOf(last.callId).callerId = last.user
  /\ \E e \in out : e.type = "call_error" /\ e.info = "Forbidden"

\* C8: an offer creates a session only for an existing, active pairing that
\* the offering user belongs to; any other offer gets a call_error and leaves
\* the map, the heap, the rows and the pending continuations untouched.
C8_OfferNeedsActivePairing ==
  [][/\ (last'.act \in OfferActs /\ ~PairingOk(last'.pairingId, last'.user))
        => /\ \E e \in out' :
                /\ out' = {e}
                /\ e.kind = "reply" /\ e.user = last'.user /\ e.type = "call_error"
           /\ UNCHANGED <<activeCalls, callObjs, dbCalls, tasks, timers>>
     /\ (Len(callObjs') > Len(callObjs))
        => last'.act = "OfferCreate" /\ PairingOk(last'.pairingId, last'.user)]_vars
C8_Witness ==
  /\ last.act = "OfferInvalidPairing" /\ last.pairingId = "p3"
  /\ \E e \in out : e.type = "call_error" /\ e.info = "Invalid pairing"

\* C9: counterparts are sent one online partner_presence_update per online
\* period of U: between two moments at which U is set offline, at most one
\* online notification about U is broadcast, however many connections open.
C9_OneOnlineNotification ==
  \A u \in Users : onlineSent[u] <= 1

\* C10: a close, on any channel, that leaves U without a registered
\* connection sets U's presence row to offline and, when U was not offline
\* already, starts the notification of U's counterparts.
CloseActs ==
  {"PresenceCloseOffline", "PresenceCloseStay", "ChatClose", "CloseBegin", "CloseDone"}
C10_LastCloseSetsOffline ==
  [][(/\ last'.act \in CloseActs
      /\ GetUserConnections(connections', userConnections', last'.user) = {})
     => /\ dbPresence'[last'.user] = "offline"
        /\ dbPresence[last'.user] # "offline"
             => \E t \in BagToSet(tasks') :
                  t.kind = "pclose" /\ ConnUser(t.conn) = last'.user]_vars

\* vocabulary of the presence claims
UpdateActs == {"PresenceUpdateForbidden", "PresenceUpdatePersist"}
NotifyActs ==
  {"PresenceNotifyOnline", "HeartbeatNotify", "PresenceUpdateNotify", "PresenceNotifyOffline"}
HiddenStudent(u) ==
  dbProfiles[u].user_type = "student" /\ ~dbProfiles[u].visible_to_partner
Suppressed(u) == HiddenStudent(u) \/ dbProfiles[u].dnd_enabled
ActivelyPaired(u, v) ==
  \E p \in DOMAIN pairings :
     /\ pairings[p].status = "active"
     /\ {pairings[p].student_id, pairings[p].parent_id} = {u, v}

\* C11: a presence_update whose data.userId is not the user of the connection
\* it arrives on is answered with one Forbidden error envelope on that
\* connection; no presence row changes and no notification is started.
C11_ForeignPresenceUpdateRejected ==
  [][(last'.act \in UpdateActs /\ last'.target # last'.user)
     => /\ \E e \in out' :
             /\ out' = {e}
             /\ e.kind = "reply" /\ e.user = last'.user
             /\ e.type = "error" /\ e.info = "Forbidden"
        /\ UNCHANGED <<dbPresence, tasks>>]_vars
C11_Witness ==
  /\ last.act = "PresenceUpdateForbidden" /\ last.target # last.user
  /\ \E e \in out : e.type = "error" /\ e.info = "Forbidden"

\* C12: no partner_presence_update about S is sent while S is a student
\* hidden from the partners or has do-not-disturb on, whatever the transition
\* (connect, heartbeat, explicit update, disconnect); the presence row of S
\* is written all the same.
C12_SuppressedSubjectNeverNotified ==
  [][/\ \A e \in out' : e.type = "partner_presence_update" => ~Suppressed(e.subject)
     /\ last'.act = "PresenceConnect" => dbPresence'[last'.user] = "online"
     /\ last'.act \in {"HeartbeatPersist", "PresenceUpdatePersist"}
          => dbPresence'[last'.user] = last'.status
     /\ last'.act = "PresenceCloseOffline" => dbPresence'[last'.user] = "offline"]_vars
C12_Witness ==
  /\ last.act \in NotifyActs /\ Suppressed(last.user)
  /\ \A e \in out : e.type # "partner_presence_update"
  /\ dbPresence[last.user] = "online"
  /\ \E v \in Users :
       /\ ActivelyPaired(last.user, v)
       /\ GetUserConnections(connections, userConnections, v) # {}

\* C13: a heartbeat without a status, or with the status the user already
\* has, sends no partner_presence_update (and the one without a status
\* writes nothing).
C13_HeartbeatNotifiesOnlyOnChange ==
  [][/\ (last'.act = "HeartbeatNotify" /\ last'.status = last'.origin)
        => \A e \in out' : e.type # "partner_presence_update"
     /\ last'.act = "HeartbeatAck"
        => /\ \A e \in out' : e.type # "partner_presence_update"
           /\ UNCHANGED <<dbPresence, tasks>>]_vars

\* C14: the presence_state sent on connect holds the connecting user's own
\* record, and a partner record only for the other member of an active
\* pairing of that user who is not a student hidden from the partners.
C14_SnapshotVisibilityFiltered ==
  [][last'.act = "PresenceSnapshot"
     => \E e \in out' :
          /\ out' = {e}
          /\ e.type = "presence_state" /\ e.user = last'.user
          /\ e.snapshot.own.userId = last'.user
          /\ \A r \in e.snapshot.partners :
               ActivelyPaired(last'.user, r.userId) /\ ~HiddenStudent(r.userId)]_vars
C14_Witness ==
  /\ last.act = "PresenceSnapshot" /\ last.user = "B"
  /\ HiddenStudent("A") /\ ActivelyPaired("B", "A")
  /\ \E e \in out : e.type = "presence_state" /\ e.snapshot.partners = {}

\* vocabulary of the chat claims
ChatActs == {"ChatForbidden", "ChatInsert"}
TypingActs == {"TypingForward", "TypingNoPairing"}
ReadActs == {"ReadFailed", "ReadForwarded", "ReadSkipped"}
Persisted(m) == m \in 1 .. Len(dbMessages)
WireTypes(w) == {w[i].type : i \in 1 .. Len(w)}

\* C15: a chat message whose sender is not a member of the stated pairing,
\* or whose pairing is not active, gets one Forbidden error envelope; no row
\* is inserted and no continuation that would deliver or confirm is started.
\* Whatever the role of the sender.
C15_ChatNeedsActiveMembership ==
  [][(last'.act \in ChatActs /\ ~PairingOk(last'.pairingId, last'.user))
     => /\ \E e \in {wire'[i] : i \in 1 .. Len(wire')} :
             /\ wire' = <<e>>
             /\ ConnUser(e.conn) = last'.user
             /\ e.type = "error" /\ e.info = "Forbidden"
        /\ UNCHANGED <<dbMessages, tasks>>]_vars

\* C16: when the insert of a chat message fails, the sender gets one error
\* envelope and the handler ends there: nothing is broadcast or confirmed;
\* every message_received and message_sent names a message that is in the
\* messages table.
C16_FailedPersistAbortsDelivery ==
  [][/\ last'.act = "ChatInsert" /\ dbMessages' = dbMessages
        => \E t \in BagToSet(tasks') : t.kind = "msg" /\ t.pc = "saved" /\ t.error
     /\ \A t \in BagToSet(tasks) :
          (t.kind = "msg" /\ t.pc = "saved" /\ t.error /\ tasks' = tasks (-) SetToBag({t}))
          => \E e \in {wire'[i] : i \in 1 .. Len(wire')} :
               /\ wire' = <<e>>
               /\ e.conn = t.conn /\ e.type = "error"
               /\ e.info = "Failed to send message"
     /\ \A i \in 1 .. Len(wire') :
          wire'[i].type \in {"message_received", "message_sent"}
          => Persisted(wire'[i].msg)]_vars
C16_Witness ==
  /\ last.act = "ChatSaveFailed"
  /\ Len(wire) = 1 /\ wire[1].type = "error"
  /\ Len(dbMessages) = Len(SeedMessages)

\* C17: a message is in the messages table before it is delivered; in the
\* delivering step every message_received to the recipient is sent before
\* the message_sent to the sender, and message_sent is sent in no other step.
C17_PersistThenDeliverThenConfirm ==
  [][/\ last'.act = "ChatDelivered"
        => /\ Persisted(last'.msg)
           /\ Len(wire') >= 1
           /\ wire'[Len(wire')].type = "message_sent"
           /\ ConnUser(wire'[Len(wire')].conn) = last'.user
           /\ wire'[Len(wire')].msg = last'.msg
           /\ \A i \in 1 .. Len(wire') - 1 :
                /\ wire'[i].type = "message_received"
                /\ ConnUser(wire'[i].conn) = last'.target
                /\ wire'[i].msg = last'.msg
     /\ "message_sent" \in WireTypes(wire') => last'.act = "ChatDelivered"]_vars
C17_Witness ==
  /\ last.act = "ChatDelivered"
  /\ Len(wire) >= 2
  /\ wire[1].type = "message_received" /\ wire[Len(wire)].type = "message_sent"

\* C18: when a message is delivered, each connection of the recipient whose
\* socket is open is sent message_received for it exactly once.
C18_EveryLiveConnectionReceivesOnce ==
  [][last'.act = "ChatDelivered"
     => \A c \in ConnIds :
          (ConnUser(c) = last'.target /\ sockets[c] = "open")
          => Cardinality({i \in 1 .. Len(wire') :
                            /\ wire'[i].conn = c
                            /\ wire'[i].type = "message_received"
                            /\ wire'[i].msg = last'.msg}) = 1]_vars

\* C19: a typing envelope is forwarded, as typing_indicator, to the other
\* member of the stated pairing if its sender is a member of that pairing,
\* and to nobody otherwise; it inserts no row.
C19_TypingOnlyWithinPairing ==
  [][last'.act \in TypingActs
     => /\ dbMessages' = dbMessages
        /\ IF last'.pairingId \in DOMAIN pairings
              /\ IsMember(pairings[last'.pairingId], last'.user)
           THEN \A i \in 1 .. Len(wire') :
                  /\ wire'[i].type = "typing_indicator"
                  /\ ConnUser(wire'[i].conn) = Partner(last'.pairingId, last'.user)
           ELSE wire' = <<>>]_vars

\* C20: a read receipt whose update succeeds sets read-at of the message and
\* read_receipt_received is then broadcast to the message's sender unless the
\* sender is the reader; when the update fails nothing is forwarded.
C20_ReadReceiptForwardedToSender ==
  [][/\ (last'.act = "ReadUpdate" /\ last'.status = "ok" /\ Persisted(last'.msg))
        => dbMessages'[last'.msg].read_at = now
     /\ last'.act \in ReadActs
        => IF last'.status = "error" THEN wire' = <<>>
           ELSE IF Persisted(last'.msg) /\ dbMessages[last'.msg].sender_id # last'.user
           THEN /\ last'.target = dbMessages[last'.msg].sender_id
                /\ dbMessages[last'.msg].read_at # Unset
                /\ wire' = BroadcastToUser(connections, userConnections,
                                           dbMessages[last'.msg].sender_id,
                                           "read_receipt_received", last'.msg,
                                           "none", last'.user)
           ELSE wire' = <<>>]_vars
C20_Witness ==
  /\ last.act = "ReadForwarded"
  /\ Len(wire) >= 1 /\ wire[1].type = "read_receipt_received"
  /\ ConnUser(wire[1].conn) = dbMessages[last.msg].sender_id
  /\ dbMessages[last.msg].read_at # Unset

\* vocabulary of the claims about candidates, failing writes and endings
CandidateActs == {"CandidateNoCall", "CandidateNotParty", "CandidateForward"}
Parties(r) == {callObjs[r].callerId, callObjs[r].calleeId}
EndCompleted(l) ==
  l.act \in {"EndDone", "EndNext"} \/ (l.act = "CloseDone" /\ l.ref # NoRef)
ReasonOf(origin) ==
  CASE origin = "timeout" -> "timeout"
    [] origin = "close" -> "connection_lost"
    [] OTHER -> "hangup"

\* C24: a call_candidate envelope changes no session, row, task or timer; for
\* a call id that is not in the map or from a user who is not a party of the
\* session nothing is emitted, not even an error; otherwise exactly one
\* call_candidate_received goes out, to the party that did not send it.
C24_CandidateOnlyForwarded ==
  [][last'.act \in CandidateActs
     => /\ UNCHANGED <<callObjs, activeCalls, dbCalls, tasks, timers, endedSent>>
        /\ IF HasId(last'.callId) /\ last'.user \in Parties(MapGet(activeCalls, last'.callId))
           THEN out' = {Bcast(v, "call_candidate_received", last'.callId,
                              MapGet(activeCalls, last'.callId), "none", Unset) :
                          v \in Parties(MapGet(activeCalls, last'.callId)) \ {last'.user}}
           ELSE out' = {}]_vars
C24_Witness ==
  /\ last.act = "CandidateForward"
  /\ \E e \in out :
       /\ out = {e}
       /\ e.type = "call_candidate_received"
       /\ e.user # last.user /\ e.user \in Parties(last.ref)

\* C25: a non-ended session of the active-call map has a row in the calls
\* table, unless the insert of its offer has not returned yet: an offer whose
\* insert failed leaves no session behind.
C25_NoSessionWithoutRow ==
  \A r \in Sessions :
     (callObjs[r].status # "ended" /\ dbCalls[callObjs[r].id] = NoRow)
       => \E t \in BagToSet(tasks) : t.kind = "offer" /\ t.pc = "insert" /\ t.ref = r

C27_LateTimerIsNoop ==
  [][(/\ last'.act \in TimerActs
      /\ ~HasId(last'.callId) \/ SessionOf(last'.callId).status = "connected")
     => /\ last'.act = "TimerNoop"
        /\ out' = {}
        /\ UNCHANGED <<callObjs, activeCalls, dbCalls, tasks, endedSent>>]_vars
C27_Witness ==
  /\ last.act = "TimerNoop"
  /\ HasId(last.callId)
  /\ SessionOf(last.callId).status = "connected"
  /\ out = {}

\* C28: an offer that arrives while the handler of another caller's offer to
\* the same callee is still running, its session not ended, is rejected as
\* busy and inserts nothing in the map.
C28_ConcurrentOffersOneSession ==
  [][(/\ last'.act \in OfferActs
      /\ PairingOk(last'.pairingId, last'.user)
      /\ \E t \in BagToSet(tasks) :
           /\ t.kind = "offer" /\ t.ref \in Sessions
           /\ callObjs[t.ref].status # "ended"
           /\ callObjs[t.ref].callerId # last'.user
           /\ callObjs[t.ref].calleeId = Partner(last'.pairingId, last'.user))
     => /\ last'.act = "OfferBusy"
        /\ UNCHANGED <<activeCalls, callObjs>>]_vars
C28_Witness ==
  /\ last.act = "OfferBusy"
  /\ \E t \in BagToSet(tasks) :
       /\ t.kind = "offer" /\ t.pc = "insert" /\ t.ref \in Sessions
       /\ callObjs[t.ref].callerId # last.user
       /\ callObjs[t.ref].calleeId = Partner(last.pairingId, last.user)

\* C30: the close listener of a connection that an error listener has already
\* taken out of the registry raises nothing and leaves both registry indexes
\* as they are; its cascade ends only sessions of the user that were not
\* ended yet, and when the user has none it changes no session, row or task
\* and emits nothing.
C30_CloseAfterRemovalIsQuiet ==
  [][(/\ last'.act \in {"CloseDone", "CloseBegin"}
      /\ sockets' # sockets
      /\ last'.status = "removed")
     => /\ UNCHANGED <<connections, userConnections>>
        /\ \A t \in BagToSet(tasks') \ BagToSet(tasks) :
             /\ t.kind = "end" /\ t.ref \in Sessions
             /\ callObjs[t.ref].status # "ended"
             /\ last'.user \in Parties(t.ref)
        /\ \A r \in DOMAIN callObjs :
             callObjs'[r] # callObjs[r]
               => callObjs[r].status # "ended" /\ last'.user \in Parties(r)
        /\ ~InNonEndedCall(last'.user)
             => /\ last'.act = "CloseDone"
                /\ out' = {}
                /\ UNCHANGED <<callObjs, activeCalls, dbCalls, tasks, timers>>]_vars
C30_Witness ==
  /\ last.act = "CloseDone" /\ last.ref = NoRef
  /\ last.status = "removed"
  /\ sockets[<<"signaling", last.user, 1>>] = "closed"
  /\ \E r \in DOMAIN callObjs : last.user \in Parties(r) /\ callObjs[r].status = "ended"

\* C22: when the stale sweep takes a connection out of the registry and the
\* user has no connection left, the user's presence row is offline and the
\* user is in no session that is not ended, as after a close of that
\* connection.
C22_SweepRunsCloseCleanup ==
  [][last'.act = "SweepTick"
     => \A id \in DOMAIN connections \ DOMAIN connections' :
          LET u == connections[id].userId
          IN  GetUserConnections(connections', userConnections', u) = {}
                => /\ dbPresence'[u] = "offline"
                   /\ \A i \in 1 .. Len(activeCalls') :
                        u \in {callObjs'[activeCalls'[i].ref].callerId,
                               callObjs'[activeCalls'[i].ref].calleeId}
                          => callObjs'[activeCalls'[i].ref].status = "ended"]_vars

\* C23: a frame that the generic envelope schema or the schema of its type
\* rejects is answered with one error envelope on the connection it came in
\* on; the connection stays open and registered, and no row, session or task
\* changes.
C23_InvalidEnvelopeAnswered ==
  [][last'.act \in {"EnvelopeRejected", "PayloadRejected"}
     => /\ \E e \in DOMAIN wire' :
             /\ DOMAIN wire' = {e}
             /\ wire'[e].type = "error" /\ ConnUser(wire'[e].conn) = last'.user
             /\ ConnNs(wire'[e].conn) = "chat"
        /\ UNCHANGED <<sockets, connections, userConnections, dbMessages, dbPresence,
                       callObjs, activeCalls, dbCalls, tasks>>]_vars

\* C29: when message_received of a message goes out, no message that came in
\* earlier on the same connection for the same pairing is still waiting for
\* its insert to return.
C29_SameConnectionInOrder ==
  [][last'.act = "ChatDelivered"
     => \A t \in BagToSet(tasks') :
          (/\ t.kind = "msg" /\ t.pc = "saved" /\ t.msg # NoMessage
           /\ ConnUser(t.conn) = last'.user
           /\ t.pairingId = last'.pairingId)
            => t.msg > last'.msg]_vars

\* C21: a broadcast to a user whose send throws on some connections returns
\* to its caller; both registry indexes lose exactly the connections whose
\* send was tried and threw; every other registered connection of the user,
\* the excluded one apart, is sent the envelope once; the excluded connection
\* is sent nothing and stays registered.
C21_BroadcastSurvivesSendFailure ==
  [][last'.act = "Broadcast"
     => LET all == GetUserConnections(connections, userConnections, last'.user)
            tried == all \ {last'.conn}
            failed == last'.targets \cap tried
        IN  /\ last'.status = "returned"
            /\ DOMAIN connections' = DOMAIN connections \ failed
            /\ \A u \in Users :
                 GetUserConnections(connections', userConnections', u)
                   = GetUserConnections(connections, userConnections, u) \ failed
            /\ \A u \in DOMAIN userConnections' : userConnections'[u] # {}
            /\ {wire'[i].conn : i \in DOMAIN wire'} = tried \ failed
            /\ Len(wire') = Cardinality(tried \ failed)
            /\ last'.conn \in DOMAIN connections => last'.conn \in DOMAIN connections']_vars
C21_Witness ==
  /\ last.act = "Broadcast" /\ last.status = "returned"
  /\ last.targets # {} /\ last.targets \cap DOMAIN connections = {}
  /\ last.conn \in DOMAIN connections /\ connections[last.conn].userId = last.user
  /\ Len(wire) = 1
  /\ wire[1].conn \in DOMAIN connections /\ wire[1].conn # last.conn

\* C31: an offer whose call id is the id of a session of the map leaves that
\* session in the map under that id, with its caller, callee and status.
C31_OfferKeepsSessionOfSameId ==
  [][(last'.act \in OfferActs /\ HasId(last'.callId))
     => /\ MapGet(activeCalls', last'.callId) = MapGet(activeCalls, last'.callId)
        /\ callObjs'[MapGet(activeCalls, last'.callId)]
             = callObjs[MapGet(activeCalls, last'.callId)]]_vars

\* C32: a call_hangup from a user who is neither caller nor callee of the
\* session of that id ends nothing: the session keeps its status and no
\* ending of it is started.
C32_HangupOnlyByParty ==
  [][(/\ last'.act \in {"HangupEnd", "HangupNoCall"}
      /\ HasId(last'.callId)
      /\ last'.user \notin Parties(MapGet(activeCalls, last'.callId)))
     => /\ UNCHANGED <<callObjs, activeCalls, dbCalls>>
        /\ \A t \in BagToSet(tasks') \ BagToSet(tasks) : t.kind # "end"]_vars

\* C33: a row that a chat message envelope adds to the messages table has as
\* sender the user of the connection the envelope came in on.
C33_SenderIsConnectionUser ==
  [][(last'.act = "ChatInsert" /\ Len(dbMessages') > Len(dbMessages))
     => dbMessages'[Len(dbMessages')].sender_id = last'.user]_vars

\* C35: a ringing timeout that ends a session ends the session of the offer
\* that scheduled it.
C35_TimerEndsOwnSession ==
  [][last'.act = "TimerEnd"
     => \E tm \in BagToSet(timers) :
          /\ timers' = timers (-) SetToBag({tm})
          /\ tm.callId = last'.callId
          /\ tm.ref = last'.ref]_vars

\* C36: a call_answer of the callee for a session whose status is not ringing
\* changes neither the status nor connected-at of the session.
C36_AnswerOnlyWhileRinging ==
  [][(/\ last'.act \in AnswerActs
      /\ HasId(last'.callId)
      /\ SessionOf(last'.callId).status # "ringing")
     => /\ callObjs'[MapGet(activeCalls, last'.callId)].status
             = callObjs[MapGet(activeCalls, last'.callId)].status
        /\ callObjs'[MapGet(activeCalls, last'.callId)].connectedAt
             = callObjs[MapGet(activeCalls, last'.callId)].connectedAt]_vars

\* C34: when no handler of U is still running and U has a presence connection
\* that is registered and open, U's presence row is not offline and the
\* notification about U that went out last is not an offline one.
C34_LiveUserNotLeftOffline ==
  \A u \in Users :
     (/\ \A t \in BagToSet(tasks) : ConnUser(t.conn) # u
      /\ \E id \in GetUserConnections(connections, userConnections, u) :
           ConnNs(id) = "presence" /\ sockets[id] = "open")
       => /\ dbPresence[u] # "offline"
          /\ ~(/\ last.act = "PresenceNotifyOffline"
               /\ \E e \in out : e.subject = u /\ e.info = "offline")

\* C37: a session of the map that is initiated or ringing has the handler of
\* its offer still running, or a ringing timeout pending for its call id, or
\* an ending of it under way.
C37_OpenSessionHasTimer ==
  \A r \in Sessions :
     callObjs[r].status \in {"initiated", "ringing"}
       => \/ \E t \in BagToSet(tasks) : t.kind \in {"offer", "end"} /\ t.ref = r
          \/ \E tm \in BagToSet(timers) : tm.callId = callObjs[r].id

\* C38: an envelope is processed only for a connection that the registry
\* holds: when a chat, typing or read-receipt envelope of a connection is
\* taken up, the connection is registered.
ArrivalActs ==
  {"ChatForbidden", "ChatInsert", "TypingNoPairing", "TypingForward", "ReadUpdate"}
C38_ServedConnectionIsRegistered ==
  [][last'.act \in ArrivalActs
     => <<"chat", last'.user, 1>> \in DOMAIN connections']_vars

\* C39: a read_receipt of a user who is not a member of the pairing of the
\* message leaves the messages table as it is, and no read_receipt_received
\* for it goes to the sender of the message.
MessagePairing(id) == dbAnyPairing(dbMessages[id].pairing_id)
C39_ReadReceiptOnlyByMember ==
  [][(/\ last'.act \in {"ReadUpdate", "ReadForwarded"}
      /\ last'.msg \in 1 .. Len(dbMessages)
      /\ ~IsMember(MessagePairing(last'.msg), last'.user))
     => /\ dbMessages' = dbMessages
        /\ last'.act # "ReadForwarded"]_vars

\* C40: a connection id is in the by-user set of U exactly when the by-id map
\* holds a connection of that id whose user is U; the by-user index holds no
\* empty set, so its size is the number of users that have a connection.
C40_RegistryIndexesAgree ==
  /\ \A u \in Users, id \in ConnIds :
       (u \in DOMAIN userConnections /\ id \in userConnections[u])
         <=> (id \in DOMAIN connections /\ connections[id].userId = u)
  /\ \A u \in DOMAIN userConnections : userConnections[u] # {}
  /\ Cardinality(DOMAIN userConnections)
       = Cardinality({connections[id].userId : id \in DOMAIN connections})
C40_Witness ==
  /\ last.act = "SweepTick"
  /\ "A" \notin DOMAIN userConnections
  /\ sockets[<<"presence", "A", 1>>] = "open"
  /\ <<"chat", "C", 1>> \in DOMAIN connections
  /\ \E id \in ConnIds : sockets[id] = "closed"

====
